---- MODULE Spec2Model ----
(***************************************************************************)
(* Verification model of the log-ingestion and incident-triage pipeline:   *)
(*   - the documents store and its two upsert statements                   *)
(*     (rag-worker repository.py, ingestor tools/extract_incident_to_pg.py)*)
(*   - the ingestor's Event Hub callback on_event (ingestor/main.py)       *)
(*   - the episode stitcher process_blob_text                              *)
(*   - the streaming and batch trace bundlers (modules/trace_bundler.py)   *)
(* Each subsystem has its own specification over the shared variable list; *)
(* the variables of the other subsystems stay at their initial values.     *)
(***************************************************************************)
EXTENDS Integers, Sequences, FiniteSets, TLC

\* ------------------------------------------------------------------------
\* Generic helpers
\* ------------------------------------------------------------------------
NULL == "NULL"

Max2(a, b) == IF a >= b THEN a ELSE b

\* ========================================================================
\* State
\* ========================================================================
\* -- the documents store --
VARIABLES
  documents,    \* the documents table: sequence of rows, unique by id
  lastRow,      \* <<r>> for the row r most recently upserted (<<>> at first)
  repeated,     \* TRUE iff the latest call upserted exactly the row upserted
                \* just before it (a pure retry of the identical input)
  ingestResponse \* <<>> or <<[written, upserted]>>: the number of rows the
                \* latest /v1/ingest call wrote and the "upserted" value of
                \* its answer (<<>> for None, else <<n>>)

storeVars == <<documents, lastRow, repeated, ingestResponse>>

\* -- the ingestor's on_event callback --
VARIABLES
  INCIDENT_SUMMARY, \* env flag: one incident per event instead of per-record
  blob_svc,         \* TRUE iff BLOB_CONN is set (raw archive enabled)
  RAG_INGEST_URL,   \* TRUE iff RAG_WORKER_URL is set
  batch,            \* run_consumer.batch, shared by all partitions' callbacks
  batch_deadline,   \* run_consumer.batch_deadline
  loopTime,         \* asyncio event-loop clock
  pc,               \* per partition: where its on_event call is suspended
  event,            \* per partition: the event being handled
  docs,             \* per partition: the docs of its post_docs call in flight
  nextEvent,        \* number of events delivered so far
  derived,          \* event id -> documents derived from that event
  postLog,          \* completed post_docs calls: <<docs, returned value>>
  checkpointed,     \* ids of the events passed to update_checkpoint
  archiveRaised     \* partitions whose call in progress saw archive_raw raise

ingestVars == <<INCIDENT_SUMMARY, blob_svc, RAG_INGEST_URL, batch, batch_deadline,
                loopTime, pc, event, docs, nextEvent, derived, postLog, checkpointed,
                archiveRaised>>

\* -- the episode stitcher process_blob_text --
VARIABLES
  current,               \* <<>> for None, else <<the open episode>>
  episodes,              \* the episodes dict, in insertion order
  prev_nonempty_message, \* headline candidate
  nrec,                  \* number of records read from the blob so far
  blobDone,              \* TRUE once process_blob_text has returned
  blobDocs,              \* the returned docs
  flushCount,            \* number of episodes flush_current has closed
  lastFlushed,           \* <<>> or <<the episode closed last, as flushed, with
                         \* the number and text of the record that closed it>>
  exampleSeen,           \* length of the input prefix equal to ExampleBlob
  tbStartCount           \* number of records read whose text has the
                         \* traceback start marker

episodeVars == <<current, episodes, prev_nonempty_message, nrec, blobDone, blobDocs,
                 flushCount, lastFlushed, exampleSeen, tbStartCount>>

\* -- the trace bundlers --
VARIABLES
  bundlerMode,        \* "stream": a StreamingTraceBundler is in use,
                      \* "batch": a BatchTraceBundler, "none": neither
  bundles,            \* StreamingTraceBundler.bundles, in dict order
  bundle_start_times, \* StreamingTraceBundler.bundle_start_times, dict order
  wallNow,            \* datetime.now(), in seconds
  returned,           \* value of the latest add_log (<<>> for None) or flush
  lastOp,             \* what the latest call did
  lastLog,            \* <<>> or <<the record of the latest add_log call>>
  nlogs,              \* number of add_log calls made
  accepted,           \* number of records add_log accepted (with a trace_id)
  completedLogs,      \* record ids of the logs of every completed bundle
  completedCount,     \* sum of len(logs) over the completed bundles
  discarded,          \* number of bundles completed below min_severity
  df,                 \* the records handed to BatchTraceBundler.bundle_records
  recordSpacing,      \* seconds between consecutive records of the batch
  batchDone,          \* TRUE once bundle_dataframe has returned
  batchResult         \* the bundles bundle_dataframe returned

bundlerVars == <<bundlerMode, bundles, bundle_start_times, wallNow, returned, lastOp,
                 lastLog, nlogs, accepted, completedLogs, completedCount, discarded,
                 df, recordSpacing, batchDone, batchResult>>

\* -- normalize_payload runs --
VARIABLES
  normNow,      \* datetime.now(timezone.utc), in seconds
  normRuns      \* the calls made: payload, time of the call, returned value

normVars == <<normNow, normRuns>>

\* -- summarize_records --
VARIABLES
  sumRecords,   \* the parsed records handed to summarize_records
  sumDone,      \* TRUE once summarize_records has returned
  sumResult     \* <<>> or <<[incidents, stats]>>: the returned pair

summarizeVars == <<sumRecords, sumDone, sumResult>>

\* -- the payload parsers --
VARIABLES
  parseLines,   \* the lines of the payload text (joined by "\n")
  decodeOut,    \* <<>> or <<items returned by decode_event_items>>
  jsonlOut,     \* <<>> or <<records yielded by parse_jsonl_or_records>>
  blobOut       \* <<>> or <<records returned by _iter_blob_records>>

parseVars == <<parseLines, decodeOut, jsonlOut, blobOut>>

\* -- the embedding service --
VARIABLES
  cacheEnabled, \* TRUE iff the service was built with a Redis cache
  embCache,     \* the texts whose embedding the cache holds
  embedTexts,   \* the argument of the latest EmbeddingService.embed call
  embedResult   \* <<>> or <<the list that call returned>>

embedVars == <<cacheEnabled, embCache, embedTexts, embedResult>>

\* -- fingerprints of two incident contents --
VARIABLES
  fpA,          \* the first content: its lines <<severity, message>>
  fpB,          \* the second content
  fpOut         \* <<>> or <<[a, b]>>: the fingerprints of the two contents

fingerprintVars == <<fpA, fpB, fpOut>>

\* -- the severity classifiers on numeric levels --
VARIABLES
  levelRuns     \* the classified levels: [n, coerce_level, coerce_severity, record_level]

levelVars == <<levelRuns>>

\* -- the preprocessor's blob pipeline --
VARIABLES
  blobYield,    \* per blob: what its records give, [logs_normalized, bundles_created]
  markers,      \* the blobs that have a ".done" marker
  blobQueue,    \* the blobs process_blobs has still to process
  listed,       \* <<>> or <<[names, limit]>>: the latest list_unprocessed_blobs,
                \* while no blob was processed since
  blobRuns      \* the _process_single_blob calls so far, one record per call

preprocessVars == <<blobYield, markers, blobQueue, listed, blobRuns>>

vars == <<storeVars, ingestVars, episodeVars, bundlerVars,
          normVars, summarizeVars, parseVars, embedVars, fingerprintVars, levelVars, preprocessVars>>

\* Initial values of the subsystems a specification does not exercise
\* (S names the subsystems the specification initialises itself).
Idle(S) ==
  /\ IF "store" \in S THEN TRUE
     ELSE /\ documents = <<>>
          /\ lastRow = <<>>
          /\ repeated = FALSE
          /\ ingestResponse = <<>>
  /\ IF "ingest" \in S THEN TRUE
     ELSE /\ INCIDENT_SUMMARY = TRUE
          /\ blob_svc = FALSE
          /\ RAG_INGEST_URL = FALSE
          /\ batch = <<>>
          /\ batch_deadline = 0
          /\ loopTime = 0
          /\ pc = <<>>
          /\ event = <<>>
          /\ docs = <<>>
          /\ nextEvent = 0
          /\ derived = <<>>
          /\ postLog = <<>>
          /\ checkpointed = {}
          /\ archiveRaised = {}
  /\ IF "episode" \in S THEN TRUE
     ELSE /\ current = <<>>
          /\ episodes = <<>>
          /\ prev_nonempty_message = ""
          /\ nrec = 0
          /\ blobDone = FALSE
          /\ blobDocs = <<>>
          /\ flushCount = 0
          /\ lastFlushed = <<>>
          /\ exampleSeen = 0
          /\ tbStartCount = 0
  /\ IF "bundler" \in S THEN TRUE
     ELSE /\ bundlerMode = "none"
          /\ bundles = <<>>
          /\ bundle_start_times = <<>>
          /\ wallNow = 0
          /\ returned = <<>>
          /\ lastOp = "none"
          /\ lastLog = <<>>
          /\ nlogs = 0
          /\ accepted = 0
          /\ completedLogs = <<>>
          /\ completedCount = 0
          /\ discarded = 0
          /\ df = <<>>
          /\ recordSpacing = 0
          /\ batchDone = FALSE
          /\ batchResult = <<>>
  /\ IF "normalize" \in S THEN TRUE
     ELSE normNow = 0 /\ normRuns = <<>>
  /\ IF "summarize" \in S THEN TRUE
     ELSE sumRecords = <<>> /\ sumDone = FALSE /\ sumResult = <<>>
  /\ IF "parse" \in S THEN TRUE
     ELSE parseLines = <<>> /\ decodeOut = <<>> /\ jsonlOut = <<>> /\ blobOut = <<>>
  /\ IF "embed" \in S THEN TRUE
     ELSE /\ cacheEnabled = FALSE
          /\ embCache = {}
          /\ embedTexts = <<>>
          /\ embedResult = <<>>
  /\ IF "fingerprint" \in S THEN TRUE
     ELSE fpA = <<>> /\ fpB = <<>> /\ fpOut = <<>>
  /\ IF "level" \in S THEN TRUE
     ELSE levelRuns = <<>>
  /\ IF "preprocess" \in S THEN TRUE
     ELSE /\ blobYield = <<>>
          /\ markers = {}
          /\ blobQueue = <<>>
          /\ listed = <<>>
          /\ blobRuns = <<>>

notStore == <<ingestVars, episodeVars, bundlerVars,
              normVars, summarizeVars, parseVars, embedVars, fingerprintVars, levelVars, preprocessVars>>
notIngest == <<storeVars, episodeVars, bundlerVars,
               normVars, summarizeVars, parseVars, embedVars, fingerprintVars, levelVars, preprocessVars>>
notEpisode == <<storeVars, ingestVars, bundlerVars,
                normVars, summarizeVars, parseVars, embedVars, fingerprintVars, levelVars, preprocessVars>>
notBundler == <<storeVars, ingestVars, episodeVars,
                normVars, summarizeVars, parseVars, embedVars, fingerprintVars, levelVars, preprocessVars>>
notNormalize == <<storeVars, ingestVars, episodeVars,
                  bundlerVars, summarizeVars, parseVars, embedVars, fingerprintVars, levelVars, preprocessVars>>
notSummarize == <<storeVars, ingestVars, episodeVars,
                  bundlerVars, normVars, parseVars, embedVars, fingerprintVars, levelVars, preprocessVars>>
notParse == <<storeVars, ingestVars, episodeVars,
              bundlerVars, normVars, summarizeVars, embedVars, fingerprintVars, levelVars, preprocessVars>>
notEmbed == <<storeVars, ingestVars, episodeVars,
              bundlerVars, normVars, summarizeVars, parseVars, fingerprintVars, levelVars, preprocessVars>>
notFingerprint == <<storeVars, ingestVars, episodeVars,
                    bundlerVars, normVars, summarizeVars, parseVars, embedVars, levelVars, preprocessVars>>
notLevel == <<storeVars, ingestVars, episodeVars,
              bundlerVars, normVars, summarizeVars, parseVars, embedVars, fingerprintVars, preprocessVars>>
notPreprocess == <<storeVars, ingestVars, episodeVars,
                   bundlerVars, normVars, summarizeVars, parseVars, embedVars, fingerprintVars, levelVars>>

\* ========================================================================
\* 1. The documents store
\* ========================================================================
DocIds == {"id1", "id2"}
DocSources == {"ContainerAppConsoleLogs"}
DocTimestamps == {1}
TracebackContents == {"Errors: ValueError"}
HttpFallbackContents == {"Headline: HTTP 500 GET /pay"}
DocContents == TracebackContents \cup HttpFallbackContents
\* rag-worker writes the int 0..5 computed by _coerce_severity (or NULL);
\* the extraction tool writes the level name (or NULL).
WorkerSeverities == {NULL, "1", "3"}
ToolSeverities == {NULL, "ERROR"}
DocEmbeddings == {"vecA"}

WorkerRows ==
  [id : DocIds, source : DocSources, ts : DocTimestamps, content : DocContents,
   severity : WorkerSeverities, embedding : DocEmbeddings]

ToolDocs ==
  [id : DocIds, source : DocSources, ts : DocTimestamps, content : DocContents,
   severity : ToolSeverities]

\* SQL COALESCE(a, b)
Coalesce(a, b) == IF a # NULL THEN a ELSE b

RowIndex(table, id) ==
  IF \E i \in DOMAIN table : table[i].id = id
  THEN CHOOSE i \in DOMAIN table : table[i].id = id
  ELSE 0

\* INSERT ... ON CONFLICT (id) DO UPDATE of repository.upsert_documents, one row
UpsertDocumentRowBroken(table, r) == Append(table, r)
UpsertDocumentRow(table, r) ==
  LET i == RowIndex(table, r.id) IN
  IF i = 0
  THEN Append(table, r)
  ELSE [table EXCEPT ![i] =
          [id        |-> @.id,
           source    |-> r.source,
           ts        |-> r.ts,
           content   |-> r.content,
           severity  |-> Coalesce(r.severity, @.severity),
           embedding |-> r.embedding]]

\* cur.executemany(sql, materialized): the statement once per row, in order
RECURSIVE upsert_documents(_, _)
upsert_documents(table, rows) ==
  IF rows = <<>> THEN table
  ELSE upsert_documents(UpsertDocumentRow(table, Head(rows)), Tail(rows))

\* UPSERT_SQL of the extraction tool: no embedding column in the statement,
\* so an inserted row has a NULL embedding and an updated row keeps its own.
UPSERT_SQL(table, d) ==
  LET i == RowIndex(table, d.id) IN
  IF i = 0
  THEN Append(table, [id |-> d.id, source |-> d.source, ts |-> d.ts,
                      content |-> d.content, severity |-> d.severity,
                      embedding |-> NULL])
  ELSE [table EXCEPT ![i] =
          [id        |-> @.id,
           source    |-> d.source,
           ts        |-> d.ts,
           content   |-> d.content,
           severity  |-> Coalesce(d.severity, @.severity),
           embedding |-> @.embedding]]

\* the value upsert_documents returns: 0 for no rows; for a non-empty input
\* the function ends after conn.commit() without a return statement (None)
upsert_documents_return(rows) == IF rows = <<>> THEN <<0>> ELSE <<>>

StoreInit ==
  /\ documents = <<>>
  /\ lastRow = <<>>
  /\ repeated = FALSE
  /\ ingestResponse = <<>>
  /\ Idle({"store"})

\* rag-worker /v1/ingest -> upsert_documents(rows), one or two rows per call:
\* the answer is {"upserted": count}
UpsertDocuments ==
  \E rows \in {<<r>> : r \in WorkerRows}
               \cup {<<r1, r2>> : r1 \in WorkerRows, r2 \in WorkerRows} :
    /\ documents' = upsert_documents(documents, rows)
    /\ lastRow' = <<rows[Len(rows)]>>
    /\ repeated' = (rows = lastRow)
    /\ ingestResponse' = <<[written |-> Len(rows),
                            upserted |-> upsert_documents_return(rows)]>>
    /\ UNCHANGED notStore

\* /v1/ingest with no usable document: {"upserted": 0} without a database call
IngestNothing ==
  /\ ingestResponse' = <<[written |-> 0, upserted |-> <<0>>]>>
  /\ UNCHANGED <<documents, lastRow, repeated, notStore>>

\* extraction tool main(): cur.execute(UPSERT_SQL, d) for one incident doc
ToolUpsert ==
  \E d \in ToolDocs :
    /\ documents' = UPSERT_SQL(documents, d)
    /\ lastRow' = <<d>>
    /\ repeated' = (<<d>> = lastRow)
    /\ UNCHANGED <<ingestResponse, notStore>>

StoreNext == UpsertDocuments \/ IngestNothing \/ ToolUpsert

\* ========================================================================
\* 2. The ingestor's Event Hub callback: run_consumer.on_event
\* ========================================================================
\* bounds
MaxEvents == 3
MaxTime == 2

\* BATCH_MAX and BATCH_WINDOW are read from the environment; the model runs
\* with BATCH_MAX=2 and a window of one clock tick.
BATCH_MAX == 2
BATCH_WINDOW == 1

Partitions == {"0", "1"}

\* What decode_event_items yields for an event body, item by item:
\*   "log"    a record normalize_payload turns into a document
\*   "metric" a record with metricName (is_metric_payload)
\*   "low"    a record normalize_payload marks _dropped_by_level
EventBodies == {<<>>, <<"log">>, <<"low">>, <<"metric", "log">>, <<"log", "log">>}

NoEvent == [id |-> 0, items |-> <<>>]

\* the per-record loop of on_event: the documents kept in norm, in item order
RECURSIVE NormFrom(_, _, _)
NormFrom(eid, items, k) ==
  IF k > Len(items) THEN <<>>
  ELSE IF items[k] = "metric" THEN NormFrom(eid, items, k + 1)
  ELSE IF items[k] = "low" THEN NormFrom(eid, items, k + 1)
  ELSE <<[ev |-> eid, item |-> k]>> \o NormFrom(eid, items, k + 1)

Norm(ev) == NormFrom(ev.id, ev.items, 1)

SeqToSet(q) == {q[i] : i \in DOMAIN q}

\* decode_event_items: raw_text is "" exactly when the body is empty
RawText(ev) == IF ev.items = <<>> THEN "" ELSE "raw"

\* summarize_from_lines(lines, min_level): an incident document or None
SummaryOutcomes(ev) ==
  IF ev.items = <<>> THEN {<<>>}
  ELSE {<<>>, <<[ev |-> ev.id, item |-> 0]>>}

IngestInit ==
  /\ INCIDENT_SUMMARY \in BOOLEAN
  /\ blob_svc \in BOOLEAN
  /\ RAG_INGEST_URL \in BOOLEAN
  /\ batch = <<>>
  /\ loopTime = 0
  /\ batch_deadline = 0 + BATCH_WINDOW
  /\ pc = [p \in Partitions |-> "idle"]
  /\ event = [p \in Partitions |-> NoEvent]
  /\ docs = [p \in Partitions |-> <<>>]
  /\ nextEvent = 0
  /\ derived = [e \in 1..0 |-> {}]
  /\ postLog = <<>>
  /\ checkpointed = {}
  /\ archiveRaised = {}
  /\ Idle({"ingest"})

AfterArchiveKeepsBatch(p, ev) ==
  IF INCIDENT_SUMMARY
  THEN \E inc \in SummaryOutcomes(ev) :
         /\ derived' = [e \in DOMAIN derived \cup {ev.id} |->
                    IF e = ev.id THEN SeqToSet(inc) ELSE derived[e]]
         /\ IF inc # <<>> /\ RAG_INGEST_URL
            THEN /\ docs' = [docs EXCEPT ![p] = inc]
                 /\ pc' = [pc EXCEPT ![p] = "post_docs"]
            ELSE /\ docs' = docs
                 /\ pc' = [pc EXCEPT ![p] = "update_checkpoint"]
         /\ UNCHANGED <<batch, batch_deadline>>
  ELSE LET norm == Norm(ev)
           extended == batch \o norm
       IN /\ derived' = [e \in DOMAIN derived \cup {ev.id} |->
                    IF e = ev.id THEN SeqToSet(norm) ELSE derived[e]]
          /\ IF (Len(extended) >= BATCH_MAX \/ loopTime >= batch_deadline)
                /\ extended # <<>> /\ RAG_INGEST_URL
             THEN /\ docs' = [docs EXCEPT ![p] = extended]
                  /\ batch' = extended
                  /\ batch_deadline' = loopTime + BATCH_WINDOW
                  /\ pc' = [pc EXCEPT ![p] = "post_docs"]
             ELSE /\ docs' = docs
                  /\ batch' = extended
                  /\ batch_deadline' = batch_deadline
                  /\ pc' = [pc EXCEPT ![p] = "update_checkpoint"]
\* on_event from the end of the archive step up to its next await:
\* fast path  (lines 234-242): summarize, then post_docs([inc]) or checkpoint;
\* per-record (lines 280-294): extend the batch, then flush it or checkpoint.
AfterArchive(p, ev) ==
  IF INCIDENT_SUMMARY
  THEN \E inc \in SummaryOutcomes(ev) :
         /\ derived' = [e \in DOMAIN derived \cup {ev.id} |->
                    IF e = ev.id THEN SeqToSet(inc) ELSE derived[e]]
         /\ IF inc # <<>> /\ RAG_INGEST_URL
            THEN /\ docs' = [docs EXCEPT ![p] = inc]
                 /\ pc' = [pc EXCEPT ![p] = "post_docs"]
            ELSE /\ docs' = docs
                 /\ pc' = [pc EXCEPT ![p] = "update_checkpoint"]
         /\ UNCHANGED <<batch, batch_deadline>>
  ELSE LET norm == Norm(ev)
           extended == batch \o norm
       IN /\ derived' = [e \in DOMAIN derived \cup {ev.id} |->
                    IF e = ev.id THEN SeqToSet(norm) ELSE derived[e]]
          /\ IF (Len(extended) >= BATCH_MAX \/ loopTime >= batch_deadline)
                /\ extended # <<>> /\ RAG_INGEST_URL
             THEN /\ docs' = [docs EXCEPT ![p] = extended]
                  /\ batch' = <<>>
                  /\ batch_deadline' = loopTime + BATCH_WINDOW
                  /\ pc' = [pc EXCEPT ![p] = "post_docs"]
             ELSE /\ docs' = docs
                  /\ batch' = extended
                  /\ batch_deadline' = batch_deadline
                  /\ pc' = [pc EXCEPT ![p] = "update_checkpoint"]

\* The consumer delivers the next event of partition p and on_event runs up
\* to its first await: archive_raw when enabled, else the step after it.
OnEvent(p) ==
  /\ pc[p] = "idle"
  /\ nextEvent < MaxEvents
  /\ \E body \in EventBodies :
       LET ev == [id |-> nextEvent + 1, items |-> body] IN
       /\ event' = [event EXCEPT ![p] = ev]
       /\ nextEvent' = nextEvent + 1
       /\ IF blob_svc /\ RawText(ev) # ""
          THEN /\ pc' = [pc EXCEPT ![p] = "archive_raw"]
               /\ derived' = [e \in DOMAIN derived \cup {ev.id} |->
                    IF e = ev.id THEN {} ELSE derived[e]]
               /\ UNCHANGED <<batch, batch_deadline, docs>>
          ELSE AfterArchive(p, ev)
  /\ UNCHANGED <<notIngest, INCIDENT_SUMMARY, blob_svc, RAG_INGEST_URL, loopTime, postLog,
                 checkpointed, archiveRaised>>

\* the statements after "await archive_raw(...)": the try block is left
\* normally, or through "except Exception", which logs a warning; either way
\* the handler goes on with the step after the archive
ArchiveOutcomeAbort(p, ev, raised) ==
  IF raised
  THEN /\ pc' = [pc EXCEPT ![p] = "idle"]
       /\ UNCHANGED <<batch, batch_deadline, docs, derived>>
  ELSE AfterArchive(p, ev)
ArchiveOutcome(p, ev, raised) == AfterArchive(p, ev)

\* archive_raw returns or raises
ArchiveDone(p) ==
  /\ pc[p] = "archive_raw"
  /\ \E raised \in BOOLEAN :
       /\ ArchiveOutcome(p, event[p], raised)
       /\ archiveRaised' = IF raised THEN archiveRaised \cup {p} ELSE archiveRaised
  /\ UNCHANGED <<notIngest, INCIDENT_SUMMARY, blob_svc, RAG_INGEST_URL, loopTime, event,
                 nextEvent, postLog, checkpointed>>

\* post_docs returns True on a 2xx answer, False on any other answer or error
PostDocsDone(p) ==
  /\ pc[p] = "post_docs"
  /\ \E ok \in BOOLEAN : postLog' = Append(postLog, <<docs[p], ok>>)
  /\ docs' = [docs EXCEPT ![p] = <<>>]
  /\ pc' = [pc EXCEPT ![p] = "update_checkpoint"]
  /\ UNCHANGED <<notIngest, INCIDENT_SUMMARY, blob_svc, RAG_INGEST_URL, batch, batch_deadline,
                 loopTime, event, nextEvent, derived, checkpointed, archiveRaised>>

\* await partition_context.update_checkpoint(event); on_event returns
UpdateCheckpoint(p) ==
  /\ pc[p] = "update_checkpoint"
  /\ checkpointed' = checkpointed \cup {event[p].id}
  /\ pc' = [pc EXCEPT ![p] = "idle"]
  /\ event' = [event EXCEPT ![p] = NoEvent]
  /\ archiveRaised' = archiveRaised \ {p}
  /\ UNCHANGED <<notIngest, INCIDENT_SUMMARY, blob_svc, RAG_INGEST_URL, batch, batch_deadline,
                 loopTime, docs, nextEvent, derived, postLog>>

\* the event-loop clock advances
Tick ==
  /\ loopTime < MaxTime
  /\ loopTime' = loopTime + 1
  /\ UNCHANGED <<notIngest, INCIDENT_SUMMARY, blob_svc, RAG_INGEST_URL, batch, batch_deadline,
                 pc, event, docs, nextEvent, derived, postLog, checkpointed,
                 archiveRaised>>

IngestNext ==
  \/ \E p \in Partitions : OnEvent(p)
  \/ \E p \in Partitions : ArchiveDone(p)
  \/ \E p \in Partitions : PostDocsDone(p)
  \/ \E p \in Partitions : UpdateCheckpoint(p)
  \/ Tick

\* ========================================================================
\* 3. The episode stitcher: tools/extract_incident_to_pg.process_blob_text
\* ========================================================================
\* bound: records per blob
MaxBlobRecords == 5

MAX_STACK_LINES == 12

T_OK == "INFO: ok"
T_CONT == "INFO: continuing"
T_TB == "Traceback (most recent call last):"
T_FRAME == "  File \"/app/x.py\", line 1, in f"
T_EXC == "ValueError: bad"
T_BLANK == "  "

\* message texts of the records of a blob
BlobTexts == {T_OK, T_CONT, T_TB, T_FRAME, T_EXC, T_BLANK}

\* values of the record's level field (NULL: no level field)
BlobLevels == {NULL, "ERROR"}

BlobSource == "unknown"

LEVEL_ORDER(sev) ==
  CASE sev = "DEBUG" -> 10
    [] sev = "INFO" -> 20
    [] sev = "WARNING" -> 30
    [] sev = "ERROR" -> 40
    [] sev = "CRITICAL" -> 50
    [] OTHER -> 10

MIN_LEVEL == "WARNING"

\* coerce_severity on a missing or a named level
coerce_severity(val) ==
  IF val = NULL THEN "INFO"
  ELSE IF val \in {"DEBUG", "INFO", "WARNING", "ERROR", "CRITICAL"} THEN val
  ELSE "DEBUG"

meets_min_level(sev) == LEVEL_ORDER(sev) >= LEVEL_ORDER(MIN_LEVEL)

\* text.strip(): empty for the whitespace-only text
Strip(text) ==
  CASE text = T_BLANK -> ""
    [] text = T_FRAME -> "File \"/app/x.py\", line 1, in f"
    [] OTHER -> text

\* TB_MARK in line
is_tb_start(line) == line = T_TB

\* indented line, File "..." line or "During handling of ..."
is_tb_frame_or_cont(line) == line \in {T_FRAME, T_BLANK}

\* EXC_TAIL_RE: ^\s*([\w\.]+(?:Error|Exception|Failure|Exit))\s*:(.*)$
is_exception_tail(line) == line = T_EXC

parse_exception_tail(line) ==
  IF line = T_EXC THEN [type |-> "ValueError", msg |-> "bad"]
  ELSE [type |-> "", msg |-> ""]

\* generalize_message: UUIDs, IPs, timestamps and numbers become placeholders
generalize_message(str) ==
  CASE str = T_FRAME -> "  File \"/app/x.py\", line #, in f"
    [] str = Strip(T_FRAME) -> "File \"/app/x.py\", line #, in f"
    [] OTHER -> str

\* extract_app_frames: the lines containing '/app/', the last MAX_STACK_LINES
LastN(q, n) == IF Len(q) <= n THEN q ELSE SubSeq(q, Len(q) - n + 1, Len(q))

extract_app_frames(lines) ==
  LastN(SelectSeq(lines, LAMBDA ln : ln = T_FRAME), MAX_STACK_LINES)

\* extract_exception_summary: split the last non-empty line at its first ':'
extract_exception_summary(lines) ==
  LET tail == SelectSeq(lines, LAMBDA ln : Strip(ln) # "")
      last == Strip(tail[Len(tail)])
  IN IF tail = <<>> THEN [type |-> "", msg |-> ""]
     ELSE CASE last = T_EXC -> [type |-> "ValueError", msg |-> "bad"]
            [] last = T_OK -> [type |-> "INFO", msg |-> "ok"]
            [] last = T_CONT -> [type |-> "INFO", msg |-> "continuing"]
            [] last = T_TB -> [type |-> "Traceback (most recent call last)", msg |-> ""]
            [] OTHER -> [type |-> last, msg |-> ""]

\* the exception summary flush_current settles on (second try: last line that
\* looks like an exception tail)
RECURSIVE LastExceptionTail(_, _)
LastExceptionTail(lines, k) ==
  IF k = 0 THEN [type |-> "", msg |-> ""]
  ELSE IF Strip(lines[k]) # "" /\ is_exception_tail(lines[k])
       THEN parse_exception_tail(lines[k])
       ELSE LastExceptionTail(lines, k - 1)

ExceptionOf(lines) ==
  LET first == extract_exception_summary(lines)
  IN IF first.type # "" THEN first ELSE LastExceptionTail(lines, Len(lines))

\* build_signature (the SHA-1 of the joined parts is taken to be injective)
build_signature(source, exception, headline, app_frame) ==
  <<IF exception # "" THEN exception ELSE "NOEXC",
    generalize_message(headline),
    generalize_message(app_frame),
    IF source # "" THEN source ELSE "unknown">>

EpisodeIndex(eps, sig) ==
  IF \E i \in DOMAIN eps : eps[i].signature = sig
  THEN CHOOSE i \in DOMAIN eps : eps[i].signature = sig
  ELSE 0

\* the signature flush_current computes for the open episode cur
EpisodeSignature(cur) ==
  LET app_frames == extract_app_frames(cur.lines)
      last_app_frame == IF app_frames # <<>> THEN app_frames[Len(app_frames)] ELSE ""
      headline == IF Strip(cur.headline) # "" THEN Strip(cur.headline)
                  ELSE Strip(cur.fallback_headline)
  IN build_signature(cur.source, ExceptionOf(cur.lines).type, headline, last_app_frame)

\* flush_current on the open episode cur: the episodes dict afterwards
flush_current(eps, cur) ==
  LET lines == cur.lines
      app_frames == extract_app_frames(lines)
      last_app_frame == IF app_frames # <<>> THEN app_frames[Len(app_frames)] ELSE ""
      exc == ExceptionOf(lines)
      headline == IF Strip(cur.headline) # "" THEN Strip(cur.headline)
                  ELSE Strip(cur.fallback_headline)
      signature == EpisodeSignature(cur)
      i == EpisodeIndex(eps, signature)
  IN IF i = 0
     THEN Append(eps,
            [signature |-> signature,
             id        |-> signature,
             source    |-> cur.source,
             ts        |-> cur.ts_last,
             content   |-> [headline  |-> headline,
                            exception |-> exc,
                            app_frame |-> last_app_frame,
                            stack     |-> LastN(app_frames, MAX_STACK_LINES),
                            count     |-> cur.count],
             severity  |-> cur.severity])
     ELSE [eps EXCEPT ![i].ts = cur.ts_last]

\* the dict a traceback-start record opens (recs: the record numbers of lines)
NewEpisode(text, sev, ts, k) ==
  [lines |-> <<text>>, recs |-> <<k>>,
   headline |-> prev_nonempty_message,
   fallback_headline |-> prev_nonempty_message,
   source |-> BlobSource, ts_first |-> ts, ts_last |-> ts,
   severity |-> sev, count |-> 1, seen_exc_tail |-> is_exception_tail(text)]

\* the input of the spec's episode-closure example
ExampleBlob == <<T_OK, T_TB, T_FRAME, T_EXC, T_CONT>>

SeeExample(text) ==
  IF exampleSeen = nrec /\ nrec < Len(ExampleBlob) /\ text = ExampleBlob[nrec + 1]
  THEN exampleSeen + 1 ELSE exampleSeen

EpisodeInit ==
  /\ current = <<>>
  /\ episodes = <<>>
  /\ prev_nonempty_message = ""
  /\ nrec = 0
  /\ blobDone = FALSE
  /\ blobDocs = <<>>
  /\ flushCount = 0
  /\ lastFlushed = <<>>
  /\ exampleSeen = 0
  /\ tbStartCount = 0
  /\ Idle({"episode"})

\* one iteration of "for obj in parse_jsonl_or_records(raw)"
ProcessRecord ==
  /\ ~blobDone
  /\ nrec < MaxBlobRecords
  /\ \E text \in BlobTexts, level \in BlobLevels :
       LET k == nrec + 1
           ts == k
           sev == coerce_severity(level)
       IN
       /\ nrec' = k
       /\ exampleSeen' = SeeExample(text)
       /\ tbStartCount' = tbStartCount + (IF is_tb_start(text) THEN 1 ELSE 0)
       /\ IF Strip(text) = ""
          THEN UNCHANGED <<current, episodes, prev_nonempty_message, flushCount,
                           lastFlushed>>
          ELSE IF current = <<>>
          THEN /\ IF is_tb_start(text)
                  THEN /\ current' = <<NewEpisode(text, sev, ts, k)>>
                       /\ UNCHANGED prev_nonempty_message
                  ELSE /\ prev_nonempty_message' = text
                       /\ UNCHANGED current
               /\ UNCHANGED <<episodes, flushCount, lastFlushed>>
          ELSE
            LET cur0 == current[1]
                cur1 == [cur0 EXCEPT
                           !.ts_last = ts,
                           !.severity = IF LEVEL_ORDER(sev) > LEVEL_ORDER(@)
                                        THEN sev ELSE @]
                cur2 == [cur1 EXCEPT
                           !.lines = Append(@, text),
                           !.recs = Append(@, k),
                           !.count = @ + 1,
                           !.seen_exc_tail = @ \/ is_exception_tail(text)]
            IN
            IF is_tb_start(text)
            THEN /\ episodes' = flush_current(episodes, cur1)
                 /\ flushCount' = flushCount + 1
                 /\ lastFlushed' = <<[ep |-> cur1, closedBy |-> k, closer |-> text]>>
                 /\ current' = <<NewEpisode(text, sev, ts, k)>>
                 /\ UNCHANGED prev_nonempty_message
            ELSE IF ~is_exception_tail(text) /\ ~is_tb_frame_or_cont(text)
                    /\ cur2.seen_exc_tail
            THEN /\ episodes' = flush_current(episodes, cur2)
                 /\ flushCount' = flushCount + 1
                 /\ lastFlushed' = <<[ep |-> cur2, closedBy |-> k, closer |-> text]>>
                 /\ current' = <<>>
                 /\ prev_nonempty_message' = text
            ELSE /\ current' = <<cur2>>
                 /\ UNCHANGED <<episodes, prev_nonempty_message, flushCount,
                                lastFlushed>>
  /\ UNCHANGED <<blobDone, blobDocs, notEpisode>>

EndOfBlobKeepsOpen ==
  /\ ~blobDone
  /\ blobDocs' = SelectSeq(episodes, LAMBDA ep : meets_min_level(ep.severity))
  /\ blobDone' = TRUE
  /\ UNCHANGED <<current, episodes, flushCount, lastFlushed, prev_nonempty_message,
                 nrec, exampleSeen, tbStartCount, notEpisode>>
\* end of blob: flush the open episode and apply the severity gate
EndOfBlob ==
  /\ ~blobDone
  /\ LET eps == IF current = <<>> THEN episodes
                ELSE flush_current(episodes, current[1])
     IN /\ episodes' = eps
        /\ blobDocs' = SelectSeq(eps, LAMBDA ep : meets_min_level(ep.severity))
  /\ IF current = <<>>
     THEN UNCHANGED <<flushCount, lastFlushed>>
     ELSE /\ flushCount' = flushCount + 1
          /\ lastFlushed' = <<[ep |-> current[1], closedBy |-> 0, closer |-> ""]>>
  /\ current' = <<>>
  /\ blobDone' = TRUE
  /\ UNCHANGED <<prev_nonempty_message, nrec, exampleSeen, tbStartCount, notEpisode>>

EpisodeNext == ProcessRecord \/ EndOfBlob

\* ========================================================================
\* 4. The trace bundlers: modules/trace_bundler.py
\* ========================================================================
\* bounds
MaxStreamLogs == 4
MaxClock == 3

\* BundlerConfig; the model runs with a window of two seconds, a content
\* limit of 36 characters and a limit of two logs per bundle (a field no
\* statement of trace_bundler.py reads)
window_seconds == 2
max_content_length == 36
max_logs_per_bundle == 2
min_severity == "WARNING"

SEVERITY_ORDER(sev, default) ==
  CASE sev = "DEBUG" -> 0
    [] sev = "INFO" -> 1
    [] sev = "WARNING" -> 2
    [] sev = "ERROR" -> 3
    [] sev = "CRITICAL" -> 4
    [] OTHER -> default

\* trace_id and severity fields of the records given to add_log
StreamTraceIds == {NULL, "t1", "t2"}
StreamSeverities == {"DEBUG", "WARNING", "ERROR"}
StreamService == "checkout"

\* IncidentBundle(trace_id=trace_id, service="unknown"); a timestamp field is
\* <<>> for None and <<t>> for the time t
NewIncidentBundle(trace_id) ==
  [trace_id |-> trace_id, service |-> "unknown", severity |-> "INFO",
   logs |-> <<>>, first_ts |-> <<>>, last_ts |-> <<>>]

\* IncidentBundle.add_log
IncidentBundle_add_log_NoMax(b, log) ==
  [b EXCEPT !.logs = Append(@, log), !.severity = log.severity]
IncidentBundle_add_log(b, log) ==
  [b EXCEPT
     !.logs = Append(@, log),
     !.first_ts = IF @ = <<>> \/ log.timestamp < @[1] THEN <<log.timestamp>> ELSE @,
     !.last_ts = IF @ = <<>> \/ log.timestamp > @[1] THEN <<log.timestamp>> ELSE @,
     !.severity = IF SEVERITY_ORDER(log.severity, 1) > SEVERITY_ORDER(@, 1)
                  THEN log.severity ELSE @,
     !.service = IF @ = "" \/ @ = "unknown" THEN log.service ELSE @]

\* IncidentBundle._format_content for records without message, exception_type
\* or stack_trace, already in timestamp order: the lines "[sev] " as
\* <<sev, "">>; a truncation marker line is <<"...", number of logs not shown>>
RECURSIVE IncidentFormatLines(_, _, _, _, _)
IncidentFormatLines(logs, k, lines, char_count, max_length) ==
  IF k > Len(logs) THEN lines
  ELSE
    LET sev == logs[k].severity
        line_len == Len(sev) + 3
    IN IF char_count + line_len > max_length
       THEN Append(lines, <<"...", Len(logs) - Len(lines)>>)
       ELSE IncidentFormatLines(logs, k + 1, Append(lines, <<sev, "">>),
                                char_count + line_len, max_length)

IncidentBundle_format_content(logs, max_length) ==
  IncidentFormatLines(logs, 1, <<>>, 0, max_length)

\* IncidentBundle.to_dict (the id hashes trace_id, service and first_ts)
to_dict(b) ==
  [id |-> <<b.trace_id, b.service, b.first_ts>>,
   trace_id |-> b.trace_id,
   service |-> b.service,
   severity |-> b.severity,
   content |-> IncidentBundle_format_content(b.logs, max_content_length),
   log_count |-> Len(b.logs),
   first_ts |-> b.first_ts,
   last_ts |-> b.last_ts,
   logs_sample |-> SubSeq(b.logs, 1, IF Len(b.logs) < 10 THEN Len(b.logs) ELSE 10)]

\* dict helpers over a sequence of entries in insertion order
BundleIndex(bs, trace_id) ==
  IF \E i \in DOMAIN bs : bs[i].trace_id = trace_id
  THEN CHOOSE i \in DOMAIN bs : bs[i].trace_id = trace_id
  ELSE 0

PopKeeps(q, trace_id) == q
Pop(q, trace_id) == SelectSeq(q, LAMBDA e : e.trace_id # trace_id)

\* the severity test of _complete_bundle
MeetsThreshold(b) ==
  ~(SEVERITY_ORDER(b.severity, 1) < SEVERITY_ORDER(min_severity, 2))

\* (now - start_time).total_seconds() > self.config.window_seconds
WindowExpiredInclusive(start_time, now) == now - start_time >= window_seconds
WindowExpired(start_time, now) == now - start_time > window_seconds

\* _complete_bundle's return value for an open bundle (<<>> for None)
CompletedValueNoGate(b) == <<to_dict(b)>>
CompletedValue(b) == IF MeetsThreshold(b) THEN <<to_dict(b)>> ELSE <<>>

LogIds(logs) == [i \in DOMAIN logs |-> logs[i].id]

\* StreamingTraceBundler.add_log(log)
AddLog ==
  /\ bundlerMode = "stream"
  /\ nlogs < MaxStreamLogs
  /\ \E trace_id \in StreamTraceIds, sev \in StreamSeverities :
       LET log == [id |-> nlogs + 1, trace_id |-> trace_id, severity |-> sev,
                   timestamp |-> nlogs + 1, service |-> StreamService]
           i == BundleIndex(bundles, trace_id)
           j == BundleIndex(bundle_start_times, trace_id)
           start_time == IF j = 0 THEN wallNow ELSE bundle_start_times[j].start
           expired == i # 0 /\ WindowExpired(start_time, wallNow)
       IN
       /\ nlogs' = nlogs + 1
       /\ lastLog' = <<log>>
       /\ IF trace_id = NULL
          THEN /\ returned' = <<>>
               /\ lastOp' = "add_log:no_trace"
               /\ UNCHANGED <<bundles, bundle_start_times, accepted, completedLogs,
                              completedCount, discarded>>
          ELSE IF expired
          THEN LET old == bundles[i] IN
               /\ returned' = CompletedValue(old)
               /\ bundles' = Append(Pop(bundles, trace_id),
                                IncidentBundle_add_log(NewIncidentBundle(trace_id), log))
               /\ bundle_start_times' =
                    Append(Pop(bundle_start_times, trace_id),
                           [trace_id |-> trace_id, start |-> wallNow])
               /\ completedLogs' = completedLogs \o LogIds(old.logs)
               /\ completedCount' = completedCount + Len(old.logs)
               /\ discarded' = discarded + (IF MeetsThreshold(old) THEN 0 ELSE 1)
               /\ accepted' = accepted + 1
               /\ lastOp' = "add_log:rollover"
          ELSE IF i = 0
          THEN /\ returned' = <<>>
               /\ bundles' = Append(bundles,
                                IncidentBundle_add_log(NewIncidentBundle(trace_id), log))
               /\ bundle_start_times' =
                    Append(bundle_start_times, [trace_id |-> trace_id, start |-> wallNow])
               /\ accepted' = accepted + 1
               /\ lastOp' = "add_log:open"
               /\ UNCHANGED <<completedLogs, completedCount, discarded>>
          ELSE /\ returned' = <<>>
               /\ bundles' = [bundles EXCEPT ![i] = IncidentBundle_add_log(@, log)]
               /\ accepted' = accepted + 1
               /\ lastOp' = "add_log:join"
               /\ UNCHANGED <<bundle_start_times, completedLogs, completedCount,
                              discarded>>
  /\ UNCHANGED <<bundlerMode, recordSpacing, wallNow, df, batchDone, batchResult, notBundler>>

\* the bundles flush completes, in dict order: returned values, ghost totals
FlushValuesFirstOnly(bs) == IF bs = <<>> THEN <<>> ELSE CompletedValue(Head(bs))
RECURSIVE FlushValues(_)
FlushValues(bs) ==
  IF bs = <<>> THEN <<>> ELSE CompletedValue(Head(bs)) \o FlushValues(Tail(bs))

RECURSIVE FlushLogIds(_)
FlushLogIds(bs) ==
  IF bs = <<>> THEN <<>> ELSE LogIds(Head(bs).logs) \o FlushLogIds(Tail(bs))

\* StreamingTraceBundler.flush()
Flush ==
  /\ bundlerMode = "stream"
  /\ returned' = FlushValues(bundles)
  /\ bundles' = <<>>
  /\ bundle_start_times' = <<>>
  /\ completedLogs' = completedLogs \o FlushLogIds(bundles)
  /\ completedCount' = completedCount + Len(FlushLogIds(bundles))
  /\ discarded' = discarded + Len(SelectSeq(bundles, LAMBDA b : ~MeetsThreshold(b)))
  /\ lastOp' = "flush"
  /\ lastLog' = <<>>
  /\ UNCHANGED <<bundlerMode, recordSpacing, wallNow, nlogs, accepted, df, batchDone, batchResult,
                 notBundler>>

\* wall-clock time passes
AdvanceClock ==
  /\ bundlerMode = "stream"
  /\ wallNow < MaxClock
  /\ wallNow' = wallNow + 1
  /\ UNCHANGED <<bundlerMode, recordSpacing, bundles, bundle_start_times, returned, lastOp, lastLog,
                 nlogs, accepted, completedLogs, completedCount, discarded, df,
                 batchDone, batchResult, notBundler>>

\* ---------------- BatchTraceBundler ----------------
\* bound: records per batch
MaxBatchRecords == 3

BORROW_SECONDS == 30
BUCKET_SECONDS == 300
\* seconds between consecutive records of a batch: inside the borrow window,
\* or wide enough to cross a 5-minute bucket
RecordSpacings == {20, 150}

BatchTraceIds == {NULL, "t1", "t2"}
BatchSeverities == {"DEBUG", "WARNING", "ERROR"}
BatchMessages == {"timeout 5", "timeout 9"}
BatchService == "checkout"

\* get_replica: none of the replica columns is present
get_replica(row) == "global"

\* synth-{service}-{replica}-{bucket:%Y%m%d%H%M}; times count from 1970-01-01
SynthId(service, replica, bucket) ==
  CASE bucket = 0 -> "synth-checkout-global-197001010000"
    [] bucket = 300 -> "synth-checkout-global-197001010005"
    [] bucket = 600 -> "synth-checkout-global-197001010010"
    [] OTHER -> "synth-checkout-global-197001010015"

\* groupby("trace_id") yields its keys in sorted order
TraceIdOrder ==
  <<"synth-checkout-global-197001010000", "synth-checkout-global-197001010005",
    "synth-checkout-global-197001010010", "synth-checkout-global-197001010015",
    "t1", "t2">>

\* a propagation that never borrows
FinalTraceIdsNoBorrow(rows, k, last_trace) ==
  [i \in 1..(Len(rows) - k + 1) |->
     LET row == rows[k + i - 1]
     IN IF row.trace_id # NULL /\ row.trace_id # "0" THEN row.trace_id
        ELSE SynthId(row.service, get_replica(row),
                     (row.timestamp \div BUCKET_SECONDS) * BUCKET_SECONDS)]

\* step 3 of bundle_dataframe: the trace id given to each row, in row order;
\* last_trace maps (service, replica) to the latest explicit id and its time
RECURSIVE FinalTraceIds(_, _, _)
FinalTraceIds(rows, k, last_trace) ==
  IF k > Len(rows) THEN <<>>
  ELSE
    LET row == rows[k]
        key == <<row.service, get_replica(row)>>
        ts == row.timestamp
    IN IF row.trace_id # NULL /\ row.trace_id # "0"
       THEN <<row.trace_id>>
            \o FinalTraceIds(rows, k + 1,
                 [x \in DOMAIN last_trace \cup {key} |->
                    IF x = key THEN [id |-> row.trace_id, ts |-> ts]
                    ELSE last_trace[x]])
       ELSE IF key \in DOMAIN last_trace /\ ts - last_trace[key].ts < BORROW_SECONDS
       THEN <<last_trace[key].id>> \o FinalTraceIds(rows, k + 1, last_trace)
       ELSE <<SynthId(row.service, get_replica(row),
                      (ts \div BUCKET_SECONDS) * BUCKET_SECONDS)>>
            \o FinalTraceIds(rows, k + 1, last_trace)

WithTraceIds(rows) ==
  LET ids == FinalTraceIds(rows, 1, [x \in {} |-> 0])
  IN [k \in DOMAIN rows |->
        [trace_id |-> ids[k], severity |-> rows[k].severity,
         sev_num |-> SEVERITY_ORDER(rows[k].severity, 1),
         message |-> rows[k].message, timestamp |-> rows[k].timestamp,
         service |-> rows[k].service]]

RECURSIVE MaxSevNum(_)
MaxSevNum(rows) ==
  IF rows = <<>> THEN -1 ELSE Max2(Head(rows).sev_num, MaxSevNum(Tail(rows)))

TraceLogs(rows, trace_id) == SelectSeq(rows, LAMBDA r : r.trace_id = trace_id)

\* step 4: the traces whose maximum severity reaches min_severity
relevant_traces(rows) ==
  SelectSeq(TraceIdOrder,
            LAMBDA t : /\ TraceLogs(rows, t) # <<>>
                       /\ MaxSevNum(TraceLogs(rows, t)) >= SEVERITY_ORDER(min_severity, 2))

SeverityName(n) ==
  CASE n = 0 -> "DEBUG" [] n = 1 -> "INFO" [] n = 2 -> "WARNING"
    [] n = 3 -> "ERROR" [] n = 4 -> "CRITICAL" [] OTHER -> "INFO"

\* "Response status: 20", "Request URL", "Job", "Scheduler" in msg
IsChatter(msg) == FALSE

\* BatchTraceBundler._format_content for rows without traceback lines and
\* without a stack_trace column: the lines "[sev] msg" as <<sev, msg>>; a
\* truncation marker line is <<"...", number of logs not shown>>
RECURSIVE FormatLines(_, _, _, _, _, _)
FormatLines(rows, k, lines, char_count, seen, has_errors) ==
  IF k > Len(rows) THEN lines
  ELSE
    LET sev == rows[k].severity
        msg == rows[k].message
        line_len == Len(sev) + Len(msg) + 3
    IN IF msg \in seen
       THEN FormatLines(rows, k + 1, lines, char_count, seen, has_errors)
       ELSE IF has_errors /\ SEVERITY_ORDER(sev, 1) < SEVERITY_ORDER("WARNING", 1)
               /\ IsChatter(msg)
       THEN FormatLines(rows, k + 1, lines, char_count, seen, has_errors)
       ELSE IF char_count + line_len > max_content_length
       THEN Append(lines, <<"...", Len(rows) - Len(lines)>>)
       ELSE FormatLines(rows, k + 1, Append(lines, <<sev, msg>>),
                        char_count + line_len, seen \cup {msg}, has_errors)

format_content(rows) ==
  FormatLines(rows, 1, <<>>, 0, {},
              \E k \in DOMAIN rows : rows[k].sev_num >= SEVERITY_ORDER("ERROR", 1))

\* messages with dynamic values: a UUID, a 32-digit hexadecimal id, an ISO
\* timestamp, a number
F_UUID_A == "ValueError: order 550e8400-e29b-41d4-a716-446655440000 failed"
F_UUID_B == "ValueError: order 6ba7b810-9dad-11d1-80b4-00c04fd430c8 failed"
F_HEX_A == "ValueError: order 550e8400e29b41d4a716446655440000 failed"
F_HEX_B == "ValueError: order 6ba7b8109dad11d180b400c04fd430c8 failed"
F_TS_A == "ValueError: at 2024-01-01T00:00:00Z"
F_TS_B == "ValueError: at 2024-06-30T12:34:56Z"
F_NUM_A == "ValueError: retry 3"
F_NUM_B == "ValueError: retry 7"
F_KEY == "KeyError: retry 3"

\* the normalisation _generate_fingerprint applies to one content line:
\* lower case; 32 and 16 hexadecimal digits in a row, 0x numbers, timestamps,
\* digit-only words and URLs replaced by tags; ".:; " stripped at both ends
LinePattern(line) ==
  IF line[1] = "..." THEN <<"", "([num] more logs truncated)">>
  ELSE <<CASE line[1] = "DEBUG" -> "[debug]"
           [] line[1] = "WARNING" -> "[warning]"
           [] line[1] = "ERROR" -> "[error]"
           [] OTHER -> line[1],
         CASE line[2] \in {"timeout 5", "timeout 9"} -> "timeout [num]"
           [] line[2] = F_UUID_A ->
                "valueerror: order 550e8400-e29b-41d4-a716-[num] failed"
           [] line[2] = F_UUID_B ->
                "valueerror: order 6ba7b810-9dad-11d1-80b4-00c04fd430c8 failed"
           [] line[2] \in {F_HEX_A, F_HEX_B} -> "valueerror: order [id32] failed"
           [] line[2] \in {F_TS_A, F_TS_B} -> "valueerror: at [ts]"
           [] line[2] \in {F_NUM_A, F_NUM_B} -> "valueerror: retry [num]"
           [] line[2] = F_KEY -> "keyerror: retry [num]"
           [] OTHER -> line[2]>>

\* _generate_fingerprint: the set of line patterns (its MD5 is injective on
\* the sorted patterns); {} stands for "empty"
generate_fingerprint(content) == {LinePattern(content[k]) : k \in DOMAIN content}

\* _create_bundle
create_bundle(trace_id, logs) ==
  [id |-> <<trace_id, BatchService, logs[1].timestamp>>,
   trace_id |-> trace_id,
   service |-> BatchService,
   severity |-> SeverityName(MaxSevNum(logs)),
   content |-> format_content(logs),
   log_count |-> Len(logs),
   first_ts |-> logs[1].timestamp,
   last_ts |-> logs[Len(logs)].timestamp,
   raw_line_range |-> NULL,
   propagation |-> <<BatchService>>]

FingerprintIndexNever(fps, fp) == 0
FingerprintIndex(fps, fp) ==
  IF \E i \in DOMAIN fps : generate_fingerprint(fps[i].content) = fp
  THEN CHOOSE i \in DOMAIN fps : generate_fingerprint(fps[i].content) = fp
  ELSE 0

\* the merge of a bundle into the one already held for its fingerprint
MergeBundleKeepFirst(existing, bundle) ==
  [existing EXCEPT !.log_count = @ + bundle.log_count]
MergeBundle(existing, bundle) ==
  [existing EXCEPT
     !.raw_line_range = "",
     !.log_count = @ + bundle.log_count,
     !.first_ts = IF bundle.first_ts < @ THEN bundle.first_ts ELSE @,
     !.severity = IF SEVERITY_ORDER(bundle.severity, 1) > SEVERITY_ORDER(@, 1)
                  THEN bundle.severity ELSE @]

\* step 5: the fingerprints dict after the traces ts[k..] have been folded in
RECURSIVE Deduplicate(_, _, _, _)
Deduplicate(rows, ts, k, fps) ==
  IF k > Len(ts) THEN fps
  ELSE
    LET bundle == create_bundle(ts[k], TraceLogs(rows, ts[k]))
        i == FingerprintIndex(fps, generate_fingerprint(bundle.content))
    IN Deduplicate(rows, ts, k + 1,
         IF i = 0 THEN Append(fps, bundle)
         ELSE [fps EXCEPT ![i] = MergeBundle(@, bundle)])

\* list.sort(key=first_ts): stable insertion sort
RECURSIVE InsertByFirstTs(_, _)
InsertByFirstTs(sorted, b) ==
  IF sorted = <<>> THEN <<b>>
  ELSE IF sorted[Len(sorted)].first_ts <= b.first_ts THEN Append(sorted, b)
  ELSE Append(InsertByFirstTs(SubSeq(sorted, 1, Len(sorted) - 1), b),
              sorted[Len(sorted)])

RECURSIVE SortByFirstTs(_)
SortByFirstTs(bs) ==
  IF bs = <<>> THEN <<>>
  ELSE InsertByFirstTs(SortByFirstTs(SubSeq(bs, 1, Len(bs) - 1)), bs[Len(bs)])

\* BatchTraceBundler.bundle_dataframe on rows already in timestamp order
bundle_dataframe(rows) ==
  IF rows = <<>> THEN <<>>
  ELSE LET traced == WithTraceIds(rows)
       IN SortByFirstTs(Deduplicate(traced, relevant_traces(traced), 1, <<>>))

\* the caller collects one more normalized record for the batch
BatchRecord ==
  /\ bundlerMode = "batch"
  /\ ~batchDone
  /\ Len(df) < MaxBatchRecords
  /\ \E trace_id \in BatchTraceIds, sev \in BatchSeverities, msg \in BatchMessages :
       df' = Append(df, [trace_id |-> trace_id, severity |-> sev, message |-> msg,
                         timestamp |-> recordSpacing * (Len(df) + 1),
                         service |-> BatchService])
  /\ UNCHANGED <<bundlerMode, recordSpacing, bundles, bundle_start_times, wallNow, returned, lastOp,
                 lastLog, nlogs, accepted, completedLogs, completedCount, discarded,
                 batchDone, batchResult, notBundler>>

\* BatchTraceBundler.bundle_records(records)
BundleRecords ==
  /\ bundlerMode = "batch"
  /\ ~batchDone
  /\ batchResult' = bundle_dataframe(df)
  /\ batchDone' = TRUE
  /\ UNCHANGED <<bundlerMode, recordSpacing, bundles, bundle_start_times, wallNow, returned, lastOp,
                 lastLog, nlogs, accepted, completedLogs, completedCount, discarded,
                 df, notBundler>>

BundlerInit ==
  /\ bundlerMode \in {"stream", "batch"}
  /\ bundles = <<>>
  /\ bundle_start_times = <<>>
  /\ wallNow = 0
  /\ returned = <<>>
  /\ lastOp = "none"
  /\ lastLog = <<>>
  /\ nlogs = 0
  /\ accepted = 0
  /\ completedLogs = <<>>
  /\ completedCount = 0
  /\ discarded = 0
  /\ df = <<>>
  /\ recordSpacing \in (IF bundlerMode = "batch" THEN RecordSpacings ELSE {0})
  /\ batchDone = FALSE
  /\ batchResult = <<>>
  /\ Idle({"bundler"})

BundlerNext == AddLog \/ Flush \/ AdvanceClock \/ BatchRecord \/ BundleRecords

\* ========================================================================
\* 5. Per-record normalization: modules/normalize.normalize_payload with the
\*    helpers of ingestor/main.py
\* ========================================================================
\* bounds
MaxNormRuns == 2
MaxNormClock == 2

ALLOW_CATEGORIES == {"ContainerAppConsoleLogs", "ContainerAppSystemLogs"}
FORWARD_MIN_LEVEL == "INFO"

\* fields of the payloads: NULL for an absent key
PayloadCategories == {NULL, "ContainerAppConsoleLogs", "Other"}
PayloadMessages == {NULL, "ERROR boom"}
PayloadTimes == {NULL, "2024-01-01T00:00:00Z", "yesterday"}

\* the payload's "records" key: absent (or not a list), the empty list, a list
\* whose first entry is a dict with metricName, a list whose first entry has
\* none
PayloadRecords == {"absent", "empty", "metric", "plain"}

\* metricName: the key is present at top level
Payloads ==
  [metricName : {FALSE}, records : {"absent"}, category : PayloadCategories,
   message : PayloadMessages, timeGenerated : PayloadTimes]
  \cup {pl \in [metricName : BOOLEAN, records : PayloadRecords, category : {NULL},
                message : PayloadMessages, timeGenerated : {NULL}] :
          pl.metricName \/ pl.records # "absent"}

is_metric_payload(obj) ==
  IF obj.records # "absent"
  THEN obj.records = "metric"
  ELSE obj.metricName

is_allowed_log(obj) ==
  LET cat == IF obj.category = NULL THEN "" ELSE obj.category
  IN cat \in ALLOW_CATEGORIES \/ (cat = "" /\ obj.message # NULL)

\* datetime.fromisoformat(str(ts).replace("Z", "+00:00")) succeeds
IsoParses(ts) == ts = "2024-01-01T00:00:00Z"

\* datetime.now(timezone.utc).isoformat() at second now
NowIso(now) ==
  CASE now = 0 -> "2026-01-01T00:00:00+00:00"
    [] now = 1 -> "2026-01-01T00:00:01+00:00"
    [] now = 2 -> "2026-01-01T00:00:02+00:00"
    [] OTHER -> "2026-01-01T00:00:03+00:00"

utc_iso(ts, now) == IF ts # NULL /\ IsoParses(ts) THEN ts ELSE NowIso(now)

\* sha1_id(*parts): the SHA-1 is taken to be injective on the parts
sha1_id(parts) == parts

classify_severity(msg) == IF msg = "ERROR boom" THEN "ERROR" ELSE "INFO"

SEV_ORDER(level) ==
  CASE level = "DEBUG" -> 0
    [] level = "INFO" -> 1
    [] level = "WARNING" -> 2
    [] level = "ERROR" -> 3
    [] level = "CRITICAL" -> 4
    [] OTHER -> 1

level_ok(level) == SEV_ORDER(level) >= SEV_ORDER(FORWARD_MIN_LEVEL)

\* normalize_payload at wall-clock second now: <<>> for None
normalize_payload(payload, now) ==
  IF is_metric_payload(payload) THEN <<>>
  ELSE IF ~is_allowed_log(payload) THEN <<>>
  ELSE IF payload.message = NULL THEN <<>>
  ELSE
    LET content == payload.message
        source == IF payload.category = NULL THEN "unknown" ELSE payload.category
        ts_iso == utc_iso(payload.timeGenerated, now)
        sev == classify_severity(content)
    IN IF ~level_ok(sev)
       THEN <<[id |-> <<>>, dropped_by_level |-> TRUE]>>
       ELSE <<[id |-> sha1_id(<<source, ts_iso, content>>), source |-> source,
               ts |-> ts_iso, content |-> content, severity |-> sev,
               dropped_by_level |-> FALSE]>>

NormalizeInit ==
  /\ normNow = 0
  /\ normRuns = <<>>
  /\ Idle({"normalize"})

\* one call of normalize_payload
NormalizePayload ==
  /\ Len(normRuns) < MaxNormRuns
  /\ \E payload \in Payloads :
       normRuns' = Append(normRuns, [payload |-> payload, at |-> normNow,
                                     doc |-> normalize_payload(payload, normNow)])
  /\ UNCHANGED <<normNow, notNormalize>>

\* wall-clock time passes
NormalizeTick ==
  /\ normNow < MaxNormClock
  /\ normNow' = normNow + 1
  /\ UNCHANGED <<normRuns, notNormalize>>

NormalizeNext == NormalizePayload \/ NormalizeTick

\* ========================================================================
\* 6. One incident per blob: modules/incidents.summarize_records
\* ========================================================================
\* bound: records per call
MaxSumRecords == 3

\* console lines of the records
L_TB == "Traceback (most recent call last):"
L_EXC == "ValueError: bad"
L_FRAME == "  File \"/app/x.py\", line 1, in f"
L_5XX == "\"GET /pay HTTP/1.1\" 503"
L_4XX == "\"GET /pay HTTP/1.1\" 404"
L_2XX == "\"GET /pay HTTP/1.1\" 200"
L_META == "{\"ContainerAppName\": \"shop\"}"

RecordMessages == {L_TB, L_EXC, L_FRAME, L_5XX, L_4XX, L_2XX, L_META}
\* the record's level field (NULL: absent)
RecordLevels == {NULL, "INFO"}
SumMinLevel == "WARNING"

LEVEL_RANK(level, default) ==
  CASE level \in {"DEBUG", "VERBOSE"} -> 10
    [] level \in {"INFO", "INFORMATION"} -> 20
    [] level \in {"WARNING", "WARN"} -> 30
    [] level = "ERROR" -> 40
    [] level \in {"CRITICAL", "FATAL"} -> 50
    [] OTHER -> default

KnownLevels ==
  {"DEBUG", "VERBOSE", "INFO", "INFORMATION", "WARNING", "WARN", "ERROR",
   "CRITICAL", "FATAL"}

\* the first standalone three-digit number of the text (0: none)
FirstHttpCode(txt) ==
  CASE txt = L_5XX -> 503 [] txt = L_4XX -> 404 [] txt = L_2XX -> 200 [] OTHER -> 0

\* the first of CRITICAL, ERROR, WARNING contained in txt.upper() ("": none)
LevelKeyword(txt) == IF txt = L_EXC THEN "ERROR" ELSE ""

record_text(rec) == rec.message

record_level(rec) ==
  IF rec.level # NULL /\ rec.level \in KnownLevels THEN rec.level
  ELSE LET txt == record_text(rec)
           code == FirstHttpCode(txt)
       IN IF code >= 500 THEN "ERROR"
          ELSE IF code >= 400 THEN "WARNING"
          ELSE IF LevelKeyword(txt) # "" THEN LevelKeyword(txt)
          ELSE "INFO"

RECURSIVE MaxLevelFrom(_, _, _)
MaxLevelFrom(records, k, best) ==
  IF k > Len(records) \/ LEVEL_RANK(best, 20) >= LEVEL_RANK("CRITICAL", 20) THEN best
  ELSE LET lvl == record_level(records[k])
       IN MaxLevelFrom(records, k + 1,
                       IF LEVEL_RANK(lvl, 20) > LEVEL_RANK(best, 20) THEN lvl ELSE best)

max_level_rank(records) == MaxLevelFrom(records, 1, "DEBUG")

\* every message of the vocabulary is one non-blank line
join_console_lines(records) == [k \in DOMAIN records |-> record_text(records[k])]

is_meta_line(s) == s = L_META

TB_START_RE(ln) == ln = L_TB
EXC_LINE_RE(ln) == ln = L_EXC
APP_FRAME_RE(ln) == ln = L_FRAME

\* _prelude_two_before_tb: no line of the vocabulary has an ASGI banner or a
\* quoted "HTTP/1.x" directly followed by a 5xx status
prelude_two_before_tb(lines, tb_idx) == <<>>

RECURSIVE ExceptionChainFrom(_, _, _)
ExceptionChainFrom(lines, k, chain) ==
  IF k > Len(lines) THEN chain
  ELSE ExceptionChainFrom(lines, k + 1,
         IF EXC_LINE_RE(lines[k]) /\ (chain = <<>> \/ chain[Len(chain)] # "ValueError")
         THEN Append(chain, "ValueError") ELSE chain)

exception_chain(lines, start_idx) ==
  LET chain == ExceptionChainFrom(lines, start_idx, <<>>)
  IN SubSeq(chain, 1, IF Len(chain) < 8 THEN Len(chain) ELSE 8)

app_frames(lines) ==
  LET frames == SelectSeq(lines, APP_FRAME_RE)
      shown == [k \in DOMAIN frames |-> "/app/x.py:1 in f"]
  IN IF Len(shown) <= 3 THEN shown ELSE SubSeq(shown, Len(shown) - 2, Len(shown))

FirstTraceback(lines) ==
  IF \E i \in DOMAIN lines : TB_START_RE(lines[i])
  THEN CHOOSE i \in DOMAIN lines :
         TB_START_RE(lines[i]) /\ \A j \in 1..(i - 1) : ~TB_START_RE(lines[j])
  ELSE 0

\* _compose_content: the lines of the incident text (<<>> for None)
compose_contentNone(lines) == <<>>
compose_content(lines) ==
  LET tb_idx == FirstTraceback(lines) IN
  IF tb_idx = 0 THEN <<>>
  ELSE
    LET chain == exception_chain(lines, tb_idx)
        frames == app_frames(lines)
        out == prelude_two_before_tb(lines, tb_idx)
                 \o (IF chain # <<>> THEN <<<<"Errors:", chain>>>> ELSE <<>>)
                 \o (IF frames # <<>> THEN <<<<"At:", frames>>>> ELSE <<>>)
        rest == SelectSeq(SubSeq(lines, tb_idx, Len(lines)),
                          LAMBDA ln : ~is_meta_line(ln))
    IN IF out # <<>> THEN out
       ELSE <<<<"(raw snippet)",
               SubSeq(rest, 1, IF Len(rest) < 15 THEN Len(rest) ELSE 15)>>>>

\* _scan_http_errors_in_text on the joined lines: access-log matches, in order
scan_http_errors_in_text(lines) ==
  LET hits == SelectSeq(lines, LAMBDA ln : FirstHttpCode(ln) >= 400)
  IN [k \in DOMAIN hits |->
        [code |-> FirstHttpCode(hits[k]), kind |-> "api", method |-> "GET",
         uri |-> "/pay", line |-> hits[k]]]

\* _pick_worst_http: first of the stable sort by (not 5xx, -code)
pick_worst_http(errs) ==
  LET better(a, b) ==
        LET a5 == a.code >= 500 /\ a.code <= 599
            b5 == b.code >= 500 /\ b.code <= 599
        IN (a5 /\ ~b5) \/ (a5 = b5 /\ a.code > b.code)
      i == CHOOSE i \in DOMAIN errs :
             /\ \A j \in DOMAIN errs : ~better(errs[j], errs[i])
             /\ \A j \in 1..(i - 1) : better(errs[i], errs[j])
  IN errs[i]

http_code_to_severity(code) == IF code >= 500 THEN "CRITICAL" ELSE "ERROR"

\* _http_fallback_content: <<>> for None, else <<[content, severity]>>
http_fallback_content(lines) ==
  LET errs == scan_http_errors_in_text(lines) IN
  IF errs = <<>> THEN <<>>
  ELSE LET worst == pick_worst_http(errs)
       IN <<[content |-> <<<<"Headline:", worst.code, worst.method, worst.uri>>,
                           <<"Snippet:", worst.line>>>>
                          \o (IF app_frames(lines) # <<>>
                              THEN <<<<"At:", app_frames(lines)>>>> ELSE <<>>),
             severity |-> http_code_to_severity(worst.code)]>>

guess_source(lines) == "ContainerAppConsoleLogs"

\* summarize_records(records, min_level=min_level)
summarize_records(records, min_level) ==
  LET max_lvl_str == max_level_rank(records)
      stats0 == [records |-> Len(records), max_level |-> max_lvl_str, kept |-> 0,
                 dropped_below_min |-> FALSE, used_fallback_http |-> FALSE]
  IN IF LEVEL_RANK(max_lvl_str, 20) < LEVEL_RANK(min_level, 30)
     THEN [incidents |-> <<>>, stats |-> [stats0 EXCEPT !.dropped_below_min = TRUE]]
     ELSE
       LET lines == SelectSeq(join_console_lines(records),
                              LAMBDA ln : ~is_meta_line(ln))
           primary == compose_content(lines)
           fb == IF primary = <<>> THEN http_fallback_content(lines) ELSE <<>>
           content == IF primary # <<>> THEN primary
                      ELSE IF fb # <<>> THEN fb[1].content ELSE <<>>
           severity == IF primary # <<>> THEN "ERROR"
                       ELSE IF fb # <<>> THEN fb[1].severity ELSE "ERROR"
           stats1 == [stats0 EXCEPT !.used_fallback_http = (primary = <<>> /\ fb # <<>>)]
       IN IF content = <<>> THEN [incidents |-> <<>>, stats |-> stats1]
          ELSE [incidents |-> <<[source |-> guess_source(lines), severity |-> severity,
                                 content |-> content, ts |-> NULL]>>,
                stats |-> [stats1 EXCEPT !.kept = 1]]

SummarizeInit ==
  /\ sumRecords = <<>>
  /\ sumDone = FALSE
  /\ sumResult = <<>>
  /\ Idle({"summarize"})

\* the caller parses one more record of the blob
SumRecord ==
  /\ ~sumDone
  /\ Len(sumRecords) < MaxSumRecords
  /\ \E msg \in RecordMessages, lvl \in RecordLevels :
       sumRecords' = Append(sumRecords, [message |-> msg, level |-> lvl])
  /\ UNCHANGED <<sumDone, sumResult, notSummarize>>

\* summarize_records(records, min_level=...)
SummarizeRecords ==
  /\ ~sumDone
  /\ sumResult' = <<summarize_records(sumRecords, SumMinLevel)>>
  /\ sumDone' = TRUE
  /\ UNCHANGED <<sumRecords, notSummarize>>

SummarizeNext == SumRecord \/ SummarizeRecords

\* ========================================================================
\* 7. The payload parsers: eh_consumer.decode_event_items,
\*    extract_incident_to_pg.parse_jsonl_or_records, incidents._iter_blob_records
\* ========================================================================
\* bound: lines per payload
MaxParseLines == 3

\* the lines a payload is made of
J_DICT == "{\"message\": \"a\"}"
J_RECORDS == "{\"records\": [{\"message\": \"r1\"}, 7]}"
J_NUM == "5"
J_BAD == "not json"
J_BRACE == "{oops"
J_EMPTY == ""

PayloadLines == {J_DICT, J_RECORDS, J_NUM, J_BAD, J_BRACE, J_EMPTY}

\* json.loads(line): "fail", or the kind of the value
JsonKind(line) ==
  CASE line = J_DICT -> "dict"
    [] line = J_RECORDS -> "records"
    [] line = J_NUM -> "other"
    [] OTHER -> "fail"

\* the dict elements of obj["records"]
RecordsOf(line) == <<[message |-> "r1"]>>
DictOf(line) == [message |-> "a"]

\* text.strip() on the joined lines: leading and trailing empty lines go
RECURSIVE StripLines(_)
StripLines(lines) ==
  IF lines = <<>> THEN <<>>
  ELSE IF Head(lines) = J_EMPTY THEN StripLines(Tail(lines))
  ELSE IF lines[Len(lines)] = J_EMPTY THEN StripLines(SubSeq(lines, 1, Len(lines) - 1))
  ELSE lines

\* the loop body shared by decode_event_items and parse_jsonl_or_records
ItemsOfLine(line) ==
  IF line = J_EMPTY THEN <<>>
  ELSE CASE JsonKind(line) = "records" -> RecordsOf(line)
         [] JsonKind(line) = "dict" -> <<DictOf(line)>>
         [] JsonKind(line) = "other" -> <<[message |-> line]>>
         [] OTHER -> <<[message |-> line]>>

RECURSIVE ItemsOfLines(_)
ItemsOfLines(lines) ==
  IF lines = <<>> THEN <<>> ELSE ItemsOfLine(Head(lines)) \o ItemsOfLines(Tail(lines))

\* decode_event_items: the items (the joined text of two or more lines of the
\* vocabulary is never one JSON value)
decode_event_items(lines) ==
  LET text == StripLines(lines)
  IN IF text = <<>> THEN <<>> ELSE ItemsOfLines(text)

\* parse_jsonl_or_records
parse_jsonl_or_records(lines) ==
  IF Len(lines) >= 2 THEN ItemsOfLines(lines)
  ELSE IF lines = <<>> THEN <<[message |-> ""]>>
  ELSE CASE JsonKind(lines[1]) = "records" -> RecordsOf(lines[1])
         [] JsonKind(lines[1]) = "dict" -> <<DictOf(lines[1])>>
         [] JsonKind(lines[1]) = "other" -> <<[message |-> lines[1]]>>
         [] OTHER -> <<[message |-> lines[1]]>>

\* the JSONL loop body of _iter_blob_records
BlobItemsOfLine(line) ==
  CASE JsonKind(line) = "records" -> RecordsOf(line)
    [] JsonKind(line) = "dict" -> <<DictOf(line)>>
    [] OTHER -> <<>>

RECURSIVE BlobItemsOfLines(_)
BlobItemsOfLines(lines) ==
  IF lines = <<>> THEN <<>>
  ELSE BlobItemsOfLine(Head(lines)) \o BlobItemsOfLines(Tail(lines))

StartsWithBrace(line) == line \in {J_DICT, J_RECORDS, J_BRACE}

\* _iter_blob_records
iter_blob_records(lines) ==
  LET t == StripLines(lines)
      out == IF Len(t) >= 2 /\ StartsWithBrace(t[1]) THEN BlobItemsOfLines(t) ELSE <<>>
  IN IF t = <<>> THEN <<>>
     ELSE IF out # <<>> THEN out
     ELSE IF Len(t) = 1 /\ JsonKind(t[1]) = "records" THEN RecordsOf(t[1])
     ELSE IF Len(t) = 1 /\ JsonKind(t[1]) = "dict" THEN <<DictOf(t[1])>>
     ELSE out

ParseInit ==
  /\ parseLines = <<>>
  /\ decodeOut = <<>>
  /\ jsonlOut = <<>>
  /\ blobOut = <<>>
  /\ Idle({"parse"})

\* the payload grows by one line
PayloadLine ==
  /\ decodeOut = <<>> /\ jsonlOut = <<>> /\ blobOut = <<>>
  /\ Len(parseLines) < MaxParseLines
  /\ \E line \in PayloadLines : parseLines' = Append(parseLines, line)
  /\ UNCHANGED <<decodeOut, jsonlOut, blobOut, notParse>>

DecodeEventItems ==
  /\ decodeOut = <<>>
  /\ decodeOut' = <<decode_event_items(parseLines)>>
  /\ UNCHANGED <<parseLines, jsonlOut, blobOut, notParse>>

ParseJsonlOrRecords ==
  /\ jsonlOut = <<>>
  /\ jsonlOut' = <<parse_jsonl_or_records(parseLines)>>
  /\ UNCHANGED <<parseLines, decodeOut, blobOut, notParse>>

IterBlobRecords ==
  /\ blobOut = <<>>
  /\ blobOut' = <<iter_blob_records(parseLines)>>
  /\ UNCHANGED <<parseLines, decodeOut, jsonlOut, notParse>>

ParseNext == PayloadLine \/ DecodeEventItems \/ ParseJsonlOrRecords \/ IterBlobRecords

\* ========================================================================
\* 8. The embedding service: rag-worker worker/embeddings.EmbeddingService
\* ========================================================================
\* bound: texts per embed call
MaxEmbedTexts == 3

EmbedTexts == {"a", "b", " a", "", "  "}

\* t.strip()
StripText(t) ==
  CASE t = " a" -> "a"
    [] t = "  " -> ""
    [] OTHER -> t

\* provider.embed: one vector per text, in order
ProviderEmbed(texts) == [k \in DOMAIN texts |-> [text |-> texts[k], from |-> "provider"]]

\* EmbeddingCache.get: the stored float32 bytes as a list, None (<<>>) on a miss
CacheGet(c, text) ==
  IF text \in c THEN <<[text |-> text, from |-> "cache"]>> ELSE <<>>

RECURSIVE UncachedIndices(_, _, _, _)
UncachedIndices(enabled, c, texts, k) ==
  IF k > Len(texts) THEN <<>>
  ELSE (IF enabled /\ CacheGet(c, texts[k]) # <<>> THEN <<>> ELSE <<k>>)
       \o UncachedIndices(enabled, c, texts, k + 1)

IndexOf(q, x) == CHOOSE j \in DOMAIN q : q[j] = x

\* EmbeddingService.embed: the returned list
embed(enabled, c, input) ==
  LET stripped == [k \in DOMAIN input |-> StripText(input[k])]
      texts == SelectSeq(stripped, LAMBDA t : t # "")
      uncached_indices == UncachedIndices(enabled, c, texts, 1)
      embeddings ==
        ProviderEmbed([j \in DOMAIN uncached_indices |-> texts[uncached_indices[j]]])
  IN [i \in DOMAIN texts |->
        IF \E j \in DOMAIN uncached_indices : uncached_indices[j] = i
        THEN embeddings[IndexOf(uncached_indices, i)]
        ELSE CacheGet(c, texts[i])[1]]

RECURSIVE SeqsOver(_, _)
SeqsOver(S, n) ==
  IF n = 0 THEN {<<>>}
  ELSE LET shorter == SeqsOver(S, n - 1)
       IN shorter \cup {Append(q, x) : q \in {r \in shorter : Len(r) = n - 1}, x \in S}

EmbedInit ==
  /\ cacheEnabled \in BOOLEAN
  /\ embCache = {}
  /\ embedTexts = <<>>
  /\ embedResult = <<>>
  /\ Idle({"embed"})

\* one call of EmbeddingService.embed(texts); cache.set stores every miss
Embed ==
  /\ \E texts \in SeqsOver(EmbedTexts, MaxEmbedTexts) :
       /\ embedTexts' = texts
       /\ embedResult' = <<embed(cacheEnabled, embCache, texts)>>
       /\ embCache' = IF cacheEnabled
                      THEN embCache \cup ({StripText(texts[k]) : k \in DOMAIN texts} \ {""})
                      ELSE embCache
  /\ UNCHANGED <<cacheEnabled, notEmbed>>

\* a cached embedding reaches its TTL
CacheExpire ==
  /\ \E t \in embCache : embCache' = embCache \ {t}
  /\ UNCHANGED <<cacheEnabled, embedTexts, embedResult, notEmbed>>

EmbedNext == Embed \/ CacheExpire

\* ========================================================================
\* 9. Fingerprints of incident contents:
\*    BatchTraceBundler._generate_fingerprint on contents with dynamic values
\* ========================================================================
\* bound: lines per content
MaxFpLines == 2

FpMessages ==
  {F_UUID_A, F_UUID_B, F_HEX_A, F_HEX_B, F_TS_A, F_TS_B, F_NUM_A, F_NUM_B, F_KEY}

FingerprintInit ==
  /\ fpA = <<>>
  /\ fpB = <<>>
  /\ fpOut = <<>>
  /\ Idle({"fingerprint"})

\* one more line "[ERROR] msg" of the first content
FpLineA ==
  /\ fpOut = <<>>
  /\ Len(fpA) < MaxFpLines
  /\ \E msg \in FpMessages : fpA' = Append(fpA, <<"ERROR", msg>>)
  /\ UNCHANGED <<fpB, fpOut, notFingerprint>>

\* one more line of the second content
FpLineB ==
  /\ fpOut = <<>>
  /\ Len(fpB) < MaxFpLines
  /\ \E msg \in FpMessages : fpB' = Append(fpB, <<"ERROR", msg>>)
  /\ UNCHANGED <<fpA, fpOut, notFingerprint>>

\* _generate_fingerprint of both contents
GenerateFingerprints ==
  /\ fpOut = <<>>
  /\ fpOut' = <<[a |-> generate_fingerprint(fpA), b |-> generate_fingerprint(fpB)]>>
  /\ UNCHANGED <<fpA, fpB, notFingerprint>>

FingerprintNext == FpLineA \/ FpLineB \/ GenerateFingerprints

\* ========================================================================
\* 10. Numeric levels: normalize._coerce_level, coerce_severity of
\*     extract_incident_to_pg.py and incidents._record_level
\* ========================================================================
\* bounds: the largest numeric level, the number of classified levels
MaxLevelNo == 60
MaxLevelRuns == 2

\* _coerce_level on an int: the level name of the returned pair
coerce_level_int(n) ==
  IF n >= 50 THEN "CRITICAL"
  ELSE IF n >= 40 THEN "ERROR"
  ELSE IF n >= 30 THEN "WARNING"
  ELSE IF n >= 20 THEN "INFO"
  ELSE "DEBUG"

\* coerce_severity on an int
coerce_severity_int(n) ==
  IF n >= 50 THEN "CRITICAL"
  ELSE IF n >= 40 THEN "ERROR"
  ELSE IF n >= 30 THEN "WARNING"
  ELSE IF n >= 20 THEN "INFO"
  ELSE "DEBUG"

\* NUM_LEVEL_MAP.get(n, "INFO")
NUM_LEVEL_MAP(n) ==
  CASE n = 0 -> "DEBUG"
    [] n = 1 -> "INFO"
    [] n = 2 -> "WARNING"
    [] n = 3 -> "ERROR"
    [] n = 4 -> "CRITICAL"
    [] OTHER -> "INFO"

\* _record_level on a record whose level is the int n and whose text has no
\* HTTP code and no level keyword (n = 0 is falsy: the text decides)
record_level_int(n) == IF n # 0 THEN NUM_LEVEL_MAP(n) ELSE "INFO"

LevelInit ==
  /\ levelRuns = <<>>
  /\ Idle({"level"})

\* one numeric level given to the three classifiers
ClassifyLevel ==
  /\ Len(levelRuns) < MaxLevelRuns
  /\ \E n \in 0..MaxLevelNo :
       levelRuns' = Append(levelRuns,
                           [n |-> n,
                            coerce_level |-> coerce_level_int(n),
                            coerce_severity |-> coerce_severity_int(n),
                            record_level |-> record_level_int(n)])
  /\ UNCHANGED notLevel

LevelNext == ClassifyLevel

\* ========================================================================
\* 11. The preprocessor: ProcessingPipeline of pipeline.py and the markers
\*     of BlobReader
\* ========================================================================
\* bounds: the logs of a blob that pass normalize_batch, the calls of
\* _process_single_blob
MaxBlobLogs == 2
MaxBlobRuns == 3

\* the source blobs, in the order list_blobs returns them
SourceBlobs == <<"b1", "b2">>
Blobs == SeqToSet(SourceBlobs)

\* what normalize_batch and bundle_records make of a blob's records
BlobYields ==
  {y \in [logs_normalized : 0..MaxBlobLogs, bundles_created : 0..MaxBlobLogs] :
     y.bundles_created <= y.logs_normalized}

\* the reader handed to _process_single_blob: BlobReader.read_blob_json
\* takes no offset keyword, so the call of pipeline.py line 108 raises
\* TypeError on it; the other reader takes the keyword the call passes
Readers == {[accepts_offset |-> FALSE], [accepts_offset |-> TRUE]}

\* list_unprocessed_blobs: the source blobs without a marker, up to limit
RECURSIVE ListUnprocessedFrom(_, _, _, _)
ListUnprocessedFrom(k, unprocessed, done, limit) ==
  IF k > Len(SourceBlobs) THEN unprocessed
  ELSE IF SourceBlobs[k] \in done
       THEN ListUnprocessedFrom(k + 1, unprocessed, done, limit)
       ELSE IF Len(unprocessed) + 1 >= limit
            THEN Append(unprocessed, SourceBlobs[k])
            ELSE ListUnprocessedFrom(k + 1, Append(unprocessed, SourceBlobs[k]),
                                     done, limit)

list_unprocessed_blobs(done, limit) == ListUnprocessedFrom(1, <<>>, done, limit)

\* _store_bundles: the number of stored bundles; 0 when there are none and
\* when the POST to rag-worker raised (post_ok = FALSE)
store_bundles(n_bundles, post_ok) ==
  IF n_bundles = 0 THEN 0
  ELSE IF post_ok THEN n_bundles ELSE 0

\* _process_single_blob: whether it raised, whether it wrote the marker, and
\* its statistics
process_single_blob(blob_name, reader, post_ok) ==
  LET y == blobYield[blob_name]
      none == [blob |-> blob_name, raised |-> FALSE, marked |-> TRUE,
               logs_normalized |-> y.logs_normalized, bundles_created |-> 0,
               bundles_stored |-> 0, store_failed |-> FALSE]
  IN  IF ~reader.accepts_offset
      THEN [blob |-> blob_name, raised |-> TRUE, marked |-> FALSE,
            logs_normalized |-> 0, bundles_created |-> 0,
            bundles_stored |-> 0, store_failed |-> FALSE]
      ELSE IF y.logs_normalized = 0 THEN none
      ELSE IF y.bundles_created = 0 THEN none
      ELSE [blob |-> blob_name, raised |-> FALSE, marked |-> TRUE,
            logs_normalized |-> y.logs_normalized,
            bundles_created |-> y.bundles_created,
            bundles_stored |-> store_bundles(y.bundles_created, post_ok),
            store_failed |-> ~post_ok]

PreprocessInit ==
  /\ blobYield \in [Blobs -> BlobYields]
  /\ markers = {}
  /\ blobQueue = <<>>
  /\ listed = <<>>
  /\ blobRuns = <<>>
  /\ Idle({"preprocess"})

\* process_unprocessed: lists the unprocessed blobs and hands them to
\* process_blobs
ProcessUnprocessed ==
  /\ blobQueue = <<>>
  /\ \E limit \in 1..Len(SourceBlobs) :
       LET blob_names == list_unprocessed_blobs(markers, limit)
       IN  /\ listed' = <<[names |-> blob_names, limit |-> limit]>>
           /\ blobQueue' = blob_names
  /\ UNCHANGED <<blobYield, markers, blobRuns, notPreprocess>>

\* process_blobs on the blob names of a request
ProcessBlobs ==
  /\ blobQueue = <<>>
  /\ \E b \in Blobs : blobQueue' = <<b>>
  /\ UNCHANGED <<blobYield, markers, listed, blobRuns, notPreprocess>>

\* one turn of the loop of process_blobs: _process_single_blob on the next
\* blob; an exception is caught and recorded, and the loop goes on
ProcessSingleBlob ==
  /\ blobQueue # <<>>
  /\ Len(blobRuns) < MaxBlobRuns
  /\ \E reader \in Readers, post_ok \in BOOLEAN :
       LET run == process_single_blob(Head(blobQueue), reader, post_ok)
       IN  /\ blobRuns' = Append(blobRuns, run)
           /\ markers' = IF run.marked THEN markers \cup {run.blob} ELSE markers
  /\ blobQueue' = Tail(blobQueue)
  /\ listed' = <<>>
  /\ UNCHANGED <<blobYield, notPreprocess>>

PreprocessNext == ProcessUnprocessed \/ ProcessBlobs \/ ProcessSingleBlob

\* ========================================================================
\* Specifications
\* ========================================================================
SpecStore == StoreInit /\ [][StoreNext]_vars

SpecIngest == IngestInit /\ [][IngestNext]_vars

SpecEpisode == EpisodeInit /\ [][EpisodeNext]_vars

SpecBundler == BundlerInit /\ [][BundlerNext]_vars
SpecNormalize == NormalizeInit /\ [][NormalizeNext]_vars

SpecSummarize == SummarizeInit /\ [][SummarizeNext]_vars

SpecParse == ParseInit /\ [][ParseNext]_vars

SpecEmbed == EmbedInit /\ [][EmbedNext]_vars

SpecFingerprint == FingerprintInit /\ [][FingerprintNext]_vars

SpecLevel == LevelInit /\ [][LevelNext]_vars

SpecPreprocess == PreprocessInit /\ [][PreprocessNext]_vars


\* ========================================================================
\* Claims
\* ========================================================================

\* Rank of a stored severity value: the 0..5 scale of the ingest router
\* (info=1, warning=2, error=3, critical=4, fatal=5); NULL ranks lowest.
SeverityRank(s) ==
  CASE s = NULL -> -1
    [] s = "0" -> 0
    [] s = "1" -> 1
    [] s = "2" -> 2
    [] s = "3" -> 3
    [] s = "4" -> 4
    [] s = "5" -> 5
    [] s = "DEBUG" -> 0
    [] s = "INFO" -> 1
    [] s = "WARNING" -> 2
    [] s = "ERROR" -> 3
    [] s = "CRITICAL" -> 4

\* Documents of the post_docs calls that returned True
Delivered ==
  UNION {SeqToSet(postLog[i][1]) : i \in {j \in DOMAIN postLog : postLog[j][2]}}

\* C1: with forwarding configured, update_checkpoint(event) is called only
\* after every document derived from the event was forwarded by a post_docs
\* call that returned True; an event whose documents wait in the batch or
\* whose post_docs call failed is never checkpointed.
C1_CheckpointOnlyAfterForward ==
  RAG_INGEST_URL =>
    \A e \in checkpointed : derived[e] \subseteq Delivered

\* C5: a record that is neither a traceback continuation nor an exception
\* tail, arriving after the open episode has seen its exception tail, closes
\* the episode and is not one of the closed episode's lines; so the input
\* INFO, Traceback, File frame, "ValueError: bad", "INFO: continuing" yields
\* exactly one episode, made of the three traceback lines only.
C5_ClosingRecordNotInEpisode ==
  /\ \A i \in DOMAIN lastFlushed :
       (lastFlushed[i].closedBy # 0 /\ ~is_tb_start(lastFlushed[i].closer))
         => lastFlushed[i].closedBy \notin SeqToSet(lastFlushed[i].ep.recs)
  /\ (blobDone /\ nrec = Len(ExampleBlob) /\ exampleSeen = Len(ExampleBlob))
       => /\ flushCount = 1
          /\ lastFlushed[1].ep.lines = <<T_TB, T_FRAME, T_EXC>>

\* C2: for upserts that target the same id the stored severity never
\* decreases: after each upsert every row's severity is at least as high as
\* the severity that row had before, whatever the incoming row carries.
C2_SeverityNeverDecreases ==
  [][\A i \in DOMAIN documents :
       SeverityRank(documents'[i].severity) >= SeverityRank(documents[i].severity)]_vars

\* C3: upserting the same draft D twice in a row leaves the store exactly as
\* upserting it once does, with exactly one row carrying D's id, for every
\* draft D and every store state, through either upsert statement.
RowsWithId(table, id) == {i \in DOMAIN table : table[i].id = id}

C3_UpsertIdempotent ==
  /\ \A d \in WorkerRows :
       LET once == upsert_documents(documents, <<d>>)
           twice == upsert_documents(once, <<d>>)
       IN twice = once /\ Cardinality(RowsWithId(twice, d.id)) = 1
  /\ \A d \in ToolDocs :
       LET once == UPSERT_SQL(documents, d)
           twice == UPSERT_SQL(once, d)
       IN twice = once /\ Cardinality(RowsWithId(twice, d.id)) = 1
  /\ \A i, j \in DOMAIN documents : documents[i].id = documents[j].id => i = j

\* C3 witness: a call has just re-upserted the identical row into a store
\* that also holds a row under another id.
C3_Witness ==
  /\ repeated
  /\ Len(documents) = 2
  /\ \E i \in DOMAIN documents : documents[i].id = lastRow[1].id

\* C4: when traceback-derived content is stored under an id, an upsert to
\* that id carrying HTTP-fallback content does not replace it.
C4_TracebackContentKept ==
  [][\A i \in DOMAIN documents :
       ( /\ documents[i].content \in TracebackContents
         /\ lastRow'[1].id = documents[i].id
         /\ lastRow'[1].content \in HttpFallbackContents )
       => documents'[i].content = documents[i].content]_vars

\* ---- the trace bundlers ----
MinRank == SEVERITY_ORDER(min_severity, 2)

RECURSIVE MaxRecordRank(_)
MaxRecordRank(logs) ==
  IF logs = <<>> THEN -1
  ELSE Max2(SEVERITY_ORDER(Head(logs).severity, 1), MaxRecordRank(Tail(logs)))

SeqRange(q) == {q[k] : k \in DOMAIN q}

\* C6: add_log for a trace_id with an open bundle older than window_seconds
\* completes the old bundle (returning it when it meets the severity
\* threshold), opens a fresh bundle for the trace_id that holds the new record
\* only, and the returned bundle does not contain the new record; when the
\* window has not elapsed the call returns None and the record joins the
\* existing bundle.
C6_RolloverOnExpiredWindow ==
  [][nlogs' = nlogs + 1 =>
       LET log == lastLog'[1]
           t == log.trace_id
           i == BundleIndex(bundles, t)
           n == BundleIndex(bundles', t)
       IN (t # NULL /\ i # 0) =>
            LET age == wallNow - bundle_start_times[BundleIndex(bundle_start_times, t)].start
                old == bundles[i]
            IN IF age > window_seconds
               THEN /\ IF SEVERITY_ORDER(old.severity, 1) >= MinRank
                       THEN /\ Len(returned') = 1
                            /\ returned'[1].trace_id = t
                            /\ returned'[1].severity = old.severity
                            /\ returned'[1].log_count = Len(old.logs)
                            /\ returned'[1].logs_sample = old.logs
                       ELSE returned' = <<>>
                    /\ \A k \in DOMAIN returned' :
                         log \notin SeqRange(returned'[k].logs_sample)
                    /\ n # 0
                    /\ bundles'[n].logs = <<log>>
                    /\ Cardinality({k \in DOMAIN bundles' : bundles'[k].trace_id = t}) = 1
                    /\ bundle_start_times'[BundleIndex(bundle_start_times', t)].start
                         = wallNow
               ELSE /\ returned' = <<>>
                    /\ n # 0
                    /\ bundles'[n].logs = Append(old.logs, log)
                    /\ bundle_start_times' = bundle_start_times]_vars

\* C6 witness: an add_log call has just rolled an expired bundle over and
\* returned it, while another trace's bundle stays open.
C6_Witness ==
  /\ lastOp = "add_log:rollover"
  /\ Len(returned) = 1
  /\ Len(bundles) = 2

C8_FlushReturnsOpenBundles ==
  [][(lastOp' = "flush" /\ wallNow' = wallNow) =>
       LET qualifying == {i \in DOMAIN bundles :
                            SEVERITY_ORDER(bundles[i].severity, 1) >= MinRank}
       IN /\ Len(returned') = Cardinality(qualifying)
          /\ \A i \in qualifying :
               Cardinality({k \in DOMAIN returned' :
                              /\ returned'[k].trace_id = bundles[i].trace_id
                              /\ returned'[k].logs_sample = bundles[i].logs}) = 1
          /\ bundles' = <<>>
          /\ bundle_start_times' = <<>>
          /\ lastOp = "flush" => returned' = <<>>]_vars

\* C8 witness: a flush has just returned the bundles of two traces.
C8_Witness ==
  /\ lastOp = "flush"
  /\ Len(returned) = 2
  /\ bundles = <<>>

OpenLogIds == FlushLogIds(bundles)

\* C9: every accepted record is in exactly one bundle, completed or open, and
\* the sizes of the completed bundles plus the sizes of the open bundles add
\* up to the number of records accepted.
C9_EachRecordInOneBundle ==
  LET all == completedLogs \o OpenLogIds
  IN /\ \A i, j \in DOMAIN all : all[i] = all[j] => i = j
     /\ Len(completedLogs) = completedCount
     /\ completedCount + Len(OpenLogIds) = accepted
     /\ Cardinality(SeqRange(all)) = accepted

\* C9 witness: bundles have been completed, one of them dropped for low
\* severity, and a bundle is open.
C9_Witness ==
  /\ completedCount >= 2
  /\ discarded > 0
  /\ bundles # <<>>

\* the bundles bundle_dataframe builds per trace, before the fingerprint merge
PerTraceBundles ==
  LET traced == WithTraceIds(df)
      ts == relevant_traces(traced)
  IN {create_bundle(ts[k], TraceLogs(traced, ts[k])) : k \in DOMAIN ts}

SameFingerprint(b) ==
  {c \in PerTraceBundles :
     generate_fingerprint(c.content) = generate_fingerprint(b.content)}

\* the batch half of C10: a merged bundle carries the highest severity of the
\* bundles merged into it
BatchMergeKeepsMax ==
  \A k \in DOMAIN batchResult :
    /\ \A c \in SameFingerprint(batchResult[k]) :
         SEVERITY_ORDER(batchResult[k].severity, 1) >= SEVERITY_ORDER(c.severity, 1)
    /\ \E c \in SameFingerprint(batchResult[k]) : batchResult[k].severity = c.severity

C11_SignatureKeepsHighestSeverity ==
  [][flushCount' = flushCount + 1 =>
       LET cur == lastFlushed'[1].ep
           i == EpisodeIndex(episodes', EpisodeSignature(cur))
       IN /\ i # 0
          /\ LEVEL_ORDER(episodes'[i].severity) >= LEVEL_ORDER(cur.severity)
          /\ (blobDone' /\ meets_min_level(cur.severity)) =>
               \E k \in DOMAIN blobDocs' :
                 blobDocs'[k].signature = EpisodeSignature(cur)]_vars

\* ---- the batch bundler's fingerprint merge and trace-id propagation ----
\* the per-trace bundles in the order bundle_dataframe visits them
PerTraceBundleSeq ==
  LET traced == WithTraceIds(df)
      ts == relevant_traces(traced)
  IN [k \in DOMAIN ts |-> create_bundle(ts[k], TraceLogs(traced, ts[k]))]

RECURSIVE SumLogCount(_)
SumLogCount(bs) ==
  IF bs = <<>> THEN 0 ELSE Head(bs).log_count + SumLogCount(Tail(bs))

\* the records of df that belong to a trace group passing the severity filter
SurvivingRecords ==
  LET traced == WithTraceIds(df)
  IN {k \in DOMAIN traced :
        \E j \in DOMAIN traced : /\ traced[j].trace_id = traced[k].trace_id
                                 /\ SEVERITY_ORDER(df[j].severity, 1) >= MinRank}

\* C12: bundle_dataframe returns at most one bundle per content fingerprint,
\* each bundle's log_count is the sum of the record counts of the surviving
\* trace groups with its fingerprint, and the log_counts add up to the number
\* of records in trace groups that passed the severity filter.
C12_OneBundlePerFingerprint ==
  batchDone =>
    /\ \A i, j \in DOMAIN batchResult :
         generate_fingerprint(batchResult[i].content)
           = generate_fingerprint(batchResult[j].content) => i = j
    /\ \A k \in DOMAIN batchResult :
         batchResult[k].log_count =
           SumLogCount(SelectSeq(PerTraceBundleSeq,
                         LAMBDA c : generate_fingerprint(c.content)
                                      = generate_fingerprint(batchResult[k].content)))
    /\ SumLogCount(batchResult) = Cardinality(SurvivingRecords)

\* C12 witness: two trace groups were merged into one bundle while a third
\* record was filtered out.
C12_Witness ==
  /\ batchDone
  /\ Len(df) = 3
  /\ Len(batchResult) = 1
  /\ batchResult[1].log_count = 2
  /\ Cardinality(SameFingerprint(batchResult[1])) = 2

\* C13: a merged bundle's first_ts is the earliest first_ts and its last_ts
\* the latest last_ts among the bundles merged into it.
C13_MergedTimeRangeIsUnion ==
  \A k \in DOMAIN batchResult :
    \A c \in SameFingerprint(batchResult[k]) :
      /\ batchResult[k].first_ts <= c.first_ts
      /\ batchResult[k].last_ts >= c.last_ts

\* C14: a record without a trace id takes the id of its most recent
\* predecessor with an explicit id when that one is less than 30 seconds
\* older; with no such predecessor, or one more than 30 seconds older, it
\* takes the synthetic id of its own 5-minute bucket.
C14_BorrowOrSynthetic ==
  \A k \in DOMAIN df :
    df[k].trace_id = NULL =>
      LET P == {j \in 1..(k - 1) : df[j].trace_id # NULL}
          last == CHOOSE j \in P : \A i \in P : i <= j
          assigned == WithTraceIds(df)[k].trace_id
          own == SynthId(df[k].service, "global", (df[k].timestamp \div 300) * 300)
      IN /\ (P # {} /\ df[k].timestamp - df[last].timestamp < 30)
              => assigned = df[last].trace_id
         /\ (P = {} \/ df[k].timestamp - df[last].timestamp > 30)
              => assigned = own

\* C14 witness: a bundled batch in which one record borrowed an id and a
\* later one, beyond the window, got a synthetic id.
C14_Witness ==
  /\ batchDone
  /\ Len(df) = 3
  /\ df[1].trace_id = "t1" /\ df[2].trace_id = NULL /\ df[3].trace_id = NULL
  /\ WithTraceIds(df)[2].trace_id = "t1"
  /\ WithTraceIds(df)[3].trace_id = "synth-checkout-global-197001010000"

\* C15: borrowing is relative to the most recent preceding record, borrowed
\* ids included: a record without a trace id that follows a record less than
\* 30 seconds older ends up with that record's trace id (t=0s X, t=20s,
\* t=40s: all X).
C15_BorrowChains ==
  \A k \in 2..Len(df) :
    (df[k].trace_id = NULL /\ df[k].timestamp - df[k - 1].timestamp < 30)
      => WithTraceIds(df)[k].trace_id = WithTraceIds(df)[k - 1].trace_id

\* ---- document ids ----
\* C16: normalize_payload gives the same payload the same id whenever it is
\* processed, also when the payload has no timestamp field or an unparseable
\* one.
C16_IdIndependentOfWallClock ==
  \A i, j \in DOMAIN normRuns :
    ( /\ normRuns[i].payload = normRuns[j].payload
      /\ normRuns[i].doc # <<>> /\ normRuns[j].doc # <<>> )
    => normRuns[i].doc[1].id = normRuns[j].doc[1].id

\* ---- traceback first, HTTP fallback second ----
HasTracebackMarker == \E k \in DOMAIN sumRecords : sumRecords[k].message = L_TB

HttpErrorCodes ==
  {FirstHttpCode(sumRecords[k].message) : k \in DOMAIN sumRecords} \ {0, 200}

\* C17: with a traceback marker in the lines the returned incident has
\* severity ERROR and used_fallback_http stays false, whatever HTTP errors the
\* lines hold; with no marker and an HTTP error line the incident is CRITICAL
\* when the chosen status is 5xx and ERROR when it is 4xx.
C17_FallbackOnlyWithoutTraceback ==
  sumDone =>
    LET incidents == sumResult[1].incidents
        stats == sumResult[1].stats
    IN /\ HasTracebackMarker =>
            /\ ~stats.used_fallback_http
            /\ \A k \in DOMAIN incidents : incidents[k].severity = "ERROR"
       /\ (~HasTracebackMarker /\ HttpErrorCodes # {}) =>
            \A k \in DOMAIN incidents :
              /\ stats.used_fallback_http
              /\ incidents[k].severity =
                   IF \E c \in HttpErrorCodes : c >= 500 /\ c <= 599
                   THEN "CRITICAL" ELSE "ERROR"

\* C17 witness: an incident was returned for lines that hold both a traceback
\* and an HTTP 503 line.
C17_Witness ==
  /\ sumDone
  /\ HasTracebackMarker
  /\ 503 \in HttpErrorCodes
  /\ sumResult[1].incidents # <<>>

\* ---- lines that fail JSON parsing ----
\* the records {"message": line} of the non-empty lines that fail json.loads
FailedLineRecords ==
  LET failed == SelectSeq(parseLines,
                          LAMBDA ln : ln # J_EMPTY /\ JsonKind(ln) = "fail")
  IN [k \in DOMAIN failed |-> [message |-> failed[k]]]

PlainTextRecords(out) ==
  SelectSeq(out, LAMBDA r : r.message \in {J_BAD, J_BRACE})

\* C18: for a multi-line payload each of the three parsers outputs, in input
\* order, a record {"message": line} for every non-empty line that fails
\* JSON parsing.
C18_NoLineDropped ==
  Len(parseLines) >= 2 =>
    /\ decodeOut # <<>> => PlainTextRecords(decodeOut[1]) = FailedLineRecords
    /\ jsonlOut # <<>> => PlainTextRecords(jsonlOut[1]) = FailedLineRecords
    /\ blobOut # <<>> => PlainTextRecords(blobOut[1]) = FailedLineRecords

\* ---- one vector per text ----
\* C19: embed returns exactly one vector per input text, result i being the
\* embedding of text i, for every mix of cache hits and misses and also for
\* inputs with empty or whitespace-only texts.
C19_OneVectorPerText ==
  embedResult # <<>> =>
    /\ Len(embedResult[1]) = Len(embedTexts)
    /\ \A i \in DOMAIN embedTexts : embedResult[1][i].text = StripText(embedTexts[i])

\* ---- the length of a bundle's content ----
\* number of decimal digits of a count below 100
Digits(n) == IF n < 10 THEN 1 ELSE 2

\* len(line) of a content line: "[sev] msg", or
\* "... (n more logs truncated)"
LineLength(line) ==
  IF line[1] = "..." THEN 26 + Digits(line[2])
  ELSE Len(line[1]) + Len(line[2]) + 3

RECURSIVE SumLineLengths(_)
SumLineLengths(lines) ==
  IF lines = <<>> THEN 0 ELSE LineLength(Head(lines)) + SumLineLengths(Tail(lines))

\* len("\n".join(lines))
ContentLength(lines) ==
  IF lines = <<>> THEN 0 ELSE SumLineLengths(lines) + Len(lines) - 1

\* C20: the content of a bundle, streaming or batch, is never longer than
\* max_content_length characters, newlines and truncation marker included.
C20_ContentWithinMaxLength ==
  /\ \A k \in DOMAIN returned :
       ContentLength(returned[k].content) <= max_content_length
  /\ \A k \in DOMAIN batchResult :
       ContentLength(batchResult[k].content) <= max_content_length

\* ---- metrics payloads ----
\* "metricName" at top level or within the first "records" entry
HasMetricName(payload) == payload.metricName \/ payload.records = "metric"

\* C21: normalize_payload returns None for every payload with metricName at
\* top level or in the first entry of its records list.
C21_MetricsNeverNormalized ==
  \A k \in DOMAIN normRuns :
    HasMetricName(normRuns[k].payload) => normRuns[k].doc = <<>>

\* ---- fingerprints under dynamic values ----
\* the message with its UUIDs, timestamps and numbers blanked
BlankDynamic(msg) ==
  CASE msg \in {F_UUID_A, F_UUID_B, F_HEX_A, F_HEX_B} -> "ValueError: order _ failed"
    [] msg \in {F_TS_A, F_TS_B} -> "ValueError: at _"
    [] msg \in {F_NUM_A, F_NUM_B} -> "ValueError: retry _"
    [] msg = F_KEY -> "KeyError: retry _"
    [] OTHER -> msg

\* the two contents are identical except for UUIDs, timestamps and numbers
SameExceptDynamic(c1, c2) ==
  /\ Len(c1) = Len(c2)
  /\ \A k \in DOMAIN c1 :
       c1[k][1] = c2[k][1] /\ BlankDynamic(c1[k][2]) = BlankDynamic(c2[k][2])

ExceptionClassName(msg) == IF msg = F_KEY THEN "KeyError" ELSE "ValueError"

ExceptionClassNames(c) == {ExceptionClassName(c[k][2]) : k \in DOMAIN c}

\* C22: contents identical except for UUIDs, timestamps and numbers get the
\* same fingerprint; contents with different exception class names get
\* different fingerprints.
C22_FingerprintStable ==
  fpOut # <<>> =>
    /\ SameExceptDynamic(fpA, fpB) => fpOut[1].a = fpOut[1].b
    /\ ExceptionClassNames(fpA) # ExceptionClassNames(fpB) => fpOut[1].a # fpOut[1].b

\* ---- numeric levels ----
\* the fixed thresholds: >= 50 CRITICAL, >= 40 ERROR, >= 30 WARNING, >= 20 INFO
ThresholdLevel(n) ==
  IF n >= 50 THEN "CRITICAL"
  ELSE IF n >= 40 THEN "ERROR"
  ELSE IF n >= 30 THEN "WARNING"
  ELSE "INFO"

\* C23: for every numeric level n >= 20, _coerce_level, coerce_severity and
\* _record_level all return the level of the fixed thresholds.
C23_NumericThresholds ==
  \A k \in DOMAIN levelRuns :
    levelRuns[k].n >= 20 =>
      /\ levelRuns[k].coerce_level = ThresholdLevel(levelRuns[k].n)
      /\ levelRuns[k].coerce_severity = ThresholdLevel(levelRuns[k].n)
      /\ levelRuns[k].record_level = ThresholdLevel(levelRuns[k].n)

\* ---- the answer of /v1/ingest ----
\* C24: /v1/ingest answers {"upserted": N} with N the number of rows it wrote.
C24_UpsertedIsRowCount ==
  ingestResponse # <<>> =>
    ingestResponse[1].upserted = <<ingestResponse[1].written>>

\* ---- a failing archive_raw ----
\* the pending batch on_event leaves behind for the event of partition p when
\* nothing goes wrong in the archive step
BatchHadArchiveSucceeded(p) ==
  IF INCIDENT_SUMMARY THEN batch
  ELSE LET extended == batch \o Norm(event[p])
       IN IF (Len(extended) >= BATCH_MAX \/ loopTime >= batch_deadline)
             /\ extended # <<>> /\ RAG_INGEST_URL
          THEN <<>>
          ELSE extended

\* C25: when archive_raw raises, on_event still summarizes or forwards the
\* event's items, goes on towards the checkpoint call, and leaves the pending
\* batch as it would be had the archive succeeded.
C25_ArchiveFailureDoesNotStopHandling ==
  [][\A p \in Partitions :
       (pc[p] = "archive_raw" /\ p \in archiveRaised') =>
         /\ pc'[p] \in {"post_docs", "update_checkpoint"}
         /\ batch' = BatchHadArchiveSucceeded(p)
         /\ ~INCIDENT_SUMMARY =>
              SeqToSet(Norm(event[p])) \subseteq SeqToSet(batch') \cup SeqToSet(docs'[p])
         /\ SeqToSet(docs'[p]) \subseteq derived'[event[p].id] \cup SeqToSet(batch)
         /\ (pc'[p] = "post_docs") = (docs'[p] # <<>>)]_vars

\* archive_raw raised for an event whose documents are now on their way to
\* post_docs, in the per-record path and in the fast path
C25_Witness ==
  \E p \in Partitions, q \in Partitions :
    /\ p \in archiveRaised /\ pc[p] = "post_docs" /\ ~INCIDENT_SUMMARY
    /\ q # p /\ q \in archiveRaised /\ pc[q] = "update_checkpoint"

\* ---- the number of logs of a bundle ----
\* C26: no open bundle of the streaming bundler, no bundle it returns and no
\* bundle the batch bundler returns has more than max_logs_per_bundle logs.
C26_AtMostMaxLogsPerBundle ==
  /\ \A k \in DOMAIN bundles : Len(bundles[k].logs) <= max_logs_per_bundle
  /\ \A k \in DOMAIN returned : returned[k].log_count <= max_logs_per_bundle
  /\ \A k \in DOMAIN batchResult : batchResult[k].log_count <= max_logs_per_bundle

\* ---- one open episode at a time ----
\* number of episodes opened so far: the flushed ones and the open one
OpenedEpisodes == flushCount + (IF current = <<>> THEN 0 ELSE 1)

\* C27: every record with the traceback start marker opens exactly one new
\* episode, closing the open one first; every opened episode is flushed
\* exactly once; no episode is open when process_blob_text has returned.
C27_OneEpisodeAtATime ==
  /\ [](/\ Len(current) <= 1
        /\ OpenedEpisodes = tbStartCount
        /\ blobDone => (current = <<>> /\ flushCount = tbStartCount))
  /\ [][/\ tbStartCount' = tbStartCount + 1 =>
             /\ current' # <<>>
             /\ current'[1].recs = <<nrec'>>
             /\ current'[1].lines = <<T_TB>>
             /\ flushCount' = flushCount + (IF current = <<>> THEN 0 ELSE 1)
        /\ flushCount' # flushCount =>
             /\ flushCount' = flushCount + 1
             /\ current # <<>>
             /\ lastFlushed'[1].ep.recs[1] = current[1].recs[1]
             /\ current' = <<>> \/ current'[1].recs[1] # current[1].recs[1]
        /\ (current # <<>> /\ current' # <<>>
              /\ current'[1].recs[1] = current[1].recs[1]) =>
             flushCount' = flushCount]_vars

\* three records of the blob had the traceback start marker, each opened an
\* episode, and the third episode was flushed at the end of the blob
C27_Witness ==
  /\ blobDone
  /\ flushCount = 3
  /\ tbStartCount = 3
  /\ lastFlushed # <<>> /\ lastFlushed[1].closedBy = 0

\* ---- the record that closes an episode by starting the next traceback ----
\* C28: a record that starts the next traceback, and so closes the open
\* episode, neither raises the closed episode's severity nor moves its
\* ts_last.
C28_NextTracebackLeavesClosedEpisode ==
  [][(/\ flushCount' = flushCount + 1
      /\ lastFlushed'[1].closedBy # 0
      /\ is_tb_start(lastFlushed'[1].closer)) =>
       /\ lastFlushed'[1].ep.severity = current[1].severity
       /\ lastFlushed'[1].ep.ts_last = current[1].ts_last]_vars

\* ---- the shared batch under interleaved callbacks ----
\* number of occurrences of d in the sequence q
Occurrences(q, d) == Cardinality({i \in DOMAIN q : q[i] = d})

RECURSIVE PostedOccurrences(_, _)
PostedOccurrences(log, d) ==
  IF log = <<>> THEN 0
  ELSE Occurrences(Head(log)[1], d) + PostedOccurrences(Tail(log), d)

\* occurrences of d in the post_docs calls made, finished or in flight
PassedToPostDocs(d) ==
  PostedOccurrences(postLog, d)
    + Occurrences(docs["0"], d) + Occurrences(docs["1"], d)

AllDerived == UNION {derived[e] : e \in DOMAIN derived}

\* C29: in the per-record path every document appended to the shared batch
\* is in exactly one post_docs call or still in the pending batch, never in
\* both and never in two calls, whatever the interleaving of the callbacks.
C29_EachDocumentPostedAtMostOnce ==
  ~INCIDENT_SUMMARY =>
    /\ \A d \in AllDerived : PassedToPostDocs(d) + Occurrences(batch, d) = 1
    /\ \A i \in DOMAIN batch : batch[i] \in AllDerived
    /\ \A p \in Partitions : \A i \in DOMAIN docs[p] : docs[p][i] \in AllDerived

\* one callback's post_docs call is in flight with a batch that holds the
\* documents of two events, while the other callback has put its documents
\* into the new pending batch
C29_Witness ==
  /\ ~INCIDENT_SUMMARY
  /\ \E p \in Partitions, q \in Partitions :
       /\ p # q
       /\ pc[p] = "post_docs"
       /\ \E i \in DOMAIN docs[p], j \in DOMAIN docs[p] : docs[p][i].ev # docs[p][j].ev
       /\ pc[q] = "update_checkpoint"
       /\ batch # <<>>
       /\ \E i \in DOMAIN batch : batch[i].ev = event[q].id

\* the latest call of _process_single_blob on blob b, <<>> when there is none
RECURSIVE LatestRunFrom(_, _)
LatestRunFrom(b, k) ==
  IF k = 0 THEN <<>>
  ELSE IF blobRuns[k].blob = b THEN <<blobRuns[k]>>
  ELSE LatestRunFrom(b, k - 1)

LatestRun(b) == LatestRunFrom(b, Len(blobRuns))

====
